---- MODULE Spec2Model ----
(***************************************************************************)
(* ecdump: passive EtherCAT capture analyzer.                              *)
(*                                                                         *)
(* The model follows src/src/analyzer.rs (DeviceManager and the per-       *)
(* command handlers), src/src/subdevice.rs (SubDevice, its three register  *)
(* files and the CommandStepper family), src/src/registers.rs (AL Control  *)
(* and AL Status decoding) and the analyzer loop of src/src/main.rs.       *)
(*                                                                         *)
(* Option<T> is a sequence: <<>> is None and <<x>> is Some(x).             *)
(* Result<ECState, u8> is [ok |-> TRUE, v |-> state] or                    *)
(* [ok |-> FALSE, v |-> raw nibble].                                       *)
(* An ECState is its discriminant, so the derived Ord is the order on      *)
(* numbers.                                                                *)
(***************************************************************************)
EXTENDS Integers, Sequences, FiniteSets, TLC

VARIABLES
    uninitialized,       \* DeviceManager.uninitialized
    num_frames,          \* DeviceManager.num_frames
    expected_wkc,        \* DeviceManager.expected_wkc
    devices,             \* DeviceManager.devices : Seq(SubDevice)
    config_address_map,  \* DeviceManager.config_address_map : u16 -> index
    pc,                  \* position of the analyzer loop: "recv", "analyze", "report"
    packet,              \* the CapturedData received from the data channel
    result,              \* the Result of the last analyze_packet, <<>> before
    log,                 \* one entry per datagram dispatched in the last frame
    mode,                \* the packet source: "file", "live", or "direct"
    running,             \* the AtomicBool the source thread polls
    source,              \* the source thread: position, buffer in hand, input
    rx_data,             \* the data channel: CapturedData in flight
    rx_recycle,          \* the recycle channel: number of buffers in it
    writer,              \* the writer thread and its channel
    ctrlc,               \* position of the Ctrl-C handler
    delivered,           \* the CapturedData the loop received, in order
    analyzed             \* timestamps of the frames analyze_packet was given

\* the threads and channels around the analyzer loop
pipe_vars == <<mode, running, source, rx_data, rx_recycle, writer, ctrlc,
               delivered, analyzed>>

vars == <<uninitialized, num_frames, expected_wkc, devices,
          config_address_map, pc, packet, result, log, mode, running, source,
          rx_data, rx_recycle, writer, ctrlc, delivered, analyzed>>

-----------------------------------------------------------------------------
(* Bounds of the exploration.                                              *)

\* largest working counter a datagram carries, hence the largest roster
MaxDevices == 2
\* frames analyzed in one run
MaxFrames == 3
\* datagrams chained in one frame
MaxDatagrams == 2
\* frames analyzed in one run of the state-machine exploration
MaxEsmFrames == 7
\* frames analyzed in one run of the register-file exploration
MaxRegFrames == 4
\* frames of captured bytes that parse_datagram accepts
MaxDecFrames == 2
\* frames of station-address traffic analyzed in one run
MaxAddrFrames == 5
\* records of a capture file, and frames a live capture sees
MaxCaptured == 3
\* depth of the data channel of a live capture
LiveChannelSize == 2

-----------------------------------------------------------------------------
(* Program constants.                                                      *)

\* ECState discriminants
Init_ == 1
PreOp == 2
Bootstrap == 3
SafeOp == 4
Op == 8

\* ECCommand codes
NOP == 0
APRD == 1
APWR == 2
APRW == 3
FPRD == 4
FPWR == 5
FPRW == 6
BRD == 7
BWR == 8
BRW == 9
LRD == 10
LWR == 11
LRW == 12
ARMW == 13
FRMW == 14

\* RegisterAddress
ConfiguredStationAddress == 16
AlControl == 288
AlStatus == 304
AlStatusCode == 308

U16 == 65536

None == <<>>
Some(x) == <<x>>
IsSome(o) == o # <<>>
Unwrap(o) == o[1]

OkR == [kind |-> "Ok"]

-----------------------------------------------------------------------------
(* registers.rs                                                            *)

\* the low nibble of an AL Control / AL Status byte as Result<ECState, u8>
DecodeState(b) ==
    LET n == b % 16 IN
    IF n \in {Init_, PreOp, Bootstrap, SafeOp, Op}
    THEN [ok |-> TRUE, v |-> n]
    ELSE [ok |-> FALSE, v |-> n]

AlControlNew(b) ==
    [state |-> DecodeState(b), acknowledge |-> ((b \div 16) % 2 = 1)]

\* an AL Status that drops the error bit
AlStatusNewNoError(b) == [state |-> DecodeState(b), error |-> FALSE]

AlStatusNew(b) ==
    [state |-> DecodeState(b), error |-> ((b \div 16) % 2 = 1)]

-----------------------------------------------------------------------------
(* subdevice.rs : SubDevice                                                *)

EmptyMap == [a \in {} |-> 0]

\* a constructor that starts the device in PreOp
SubDeviceNewPreOp ==
    [state |-> PreOp,
     has_esm_error |-> FALSE,
     configured_address |-> None,
     al_status |-> None,
     al_status_code |-> None,
     al_control |-> None,
     register_brd |-> EmptyMap,
     register_wr |-> EmptyMap,
     register_rd |-> EmptyMap]

SubDeviceNew ==
    [state |-> Init_,
     has_esm_error |-> FALSE,
     configured_address |-> None,
     al_status |-> None,
     al_status_code |-> None,
     al_control |-> None,
     register_brd |-> EmptyMap,
     register_wr |-> EmptyMap,
     register_rd |-> EmptyMap]

\* a write whose offsets do not wrap at 2^16
WriteRegImplNoWrap(register, reg_addr, data) ==
    LET at(i) == reg_addr + (i - 1)
        written == {at(i) : i \in 1..Len(data)}
    IN  [a \in (DOMAIN register) \cup written |->
            IF a \in written
            THEN data[CHOOSE i \in 1..Len(data) : at(i) = a]
            ELSE register[a]]

\* register.insert(reg_addr.wrapping_add(i), data[i]) for each byte
WriteRegImpl(register, reg_addr, data) ==
    LET at(i) == (reg_addr + (i - 1)) % U16
        written == {at(i) : i \in 1..Len(data)}
    IN  [a \in (DOMAIN register) \cup written |->
            IF a \in written
            THEN data[CHOOSE i \in 1..Len(data) : at(i) = a]
            ELSE register[a]]

\* the iterator of Option<u8>, as a sequence
ReadRegImpl(register, reg_addr, length) ==
    [i \in 1..length |->
        LET a == (reg_addr + (i - 1)) % U16 IN
        IF a \in DOMAIN register THEN Some(register[a]) ELSE None]

WriteRegWr(sd, reg_addr, data) ==
    [sd EXCEPT !.register_wr = WriteRegImpl(@, reg_addr, data)]

WriteRegRd(sd, reg_addr, data) ==
    [sd EXCEPT !.register_rd = WriteRegImpl(@, reg_addr, data)]

WriteRegBrd(sd, reg_addr, data) ==
    [sd EXCEPT !.register_brd = WriteRegImpl(@, reg_addr, data)]

U16FromLeBytes(low, high) == low + 256 * high

LoadAlStatusCode(sd) ==
    LET iter == ReadRegImpl(sd.register_rd, AlStatusCode, 2)
        low == iter[1]
        high == iter[2]
    IN  [sd EXCEPT !.al_status_code =
            IF IsSome(low) /\ IsSome(high)
            THEN Some(U16FromLeBytes(Unwrap(low), Unwrap(high)))
            ELSE None]

-----------------------------------------------------------------------------
(* subdevice.rs : CommandStepper                                           *)

\* a commit that follows the device down but not up
CommitStateDownOnly(sd, new_state) ==
    IF new_state > sd.state THEN sd ELSE [sd EXCEPT !.state = new_state]

\* a commit that also clears the error flag
CommitStateClearsFlag(sd, new_state) ==
    [sd EXCEPT !.state = new_state, !.has_esm_error = FALSE]

\* `subdevice.state = new_state`
CommitState(sd, new_state) == [sd EXCEPT !.state = new_state]

\* a backward branch that reports the transition without loading the code
BackwardNoLoad(sd, al_status, old_state, new_state) ==
    [sd |-> [sd EXCEPT !.has_esm_error = TRUE],
     res |-> [kind |-> "BackwardTransition", from |-> old_state,
              to |-> new_state, has_error |-> al_status.error]]

\* the backward branch: has_esm_error = true, load_al_status_code(), Err
Backward(sd, al_status, old_state, new_state) ==
    [sd |-> LoadAlStatusCode([sd EXCEPT !.has_esm_error = TRUE]),
     res |-> [kind |-> "BackwardTransition", from |-> old_state,
              to |-> new_state, has_error |-> al_status.error]]

\* the request the AL Control holds: its state if it decoded and differs from
\* the device's state
ChangeRequested(sd) ==
    IF IsSome(sd.al_control)
       /\ Unwrap(sd.al_control).state.ok
       /\ Unwrap(sd.al_control).state.v # sd.state
    THEN Some(Unwrap(sd.al_control).state.v)
    ELSE None

\* the requested branch with the backward test ahead of the overshoot test
RequestedBranchBackwardFirst(sd, al_status, requested_state) ==
    LET new_state == al_status.state.v
        old_state == sd.state
        moved == CommitState(sd, new_state)
    IN  IF new_state < old_state THEN
            Backward(moved, al_status, old_state, new_state)
        ELSE IF new_state > requested_state THEN
            [sd |-> moved,
             res |-> [kind |-> "InvalidStateTransition",
                      requested |-> requested_state, current |-> moved.state]]
        ELSE IF new_state < requested_state THEN
            [sd |-> moved,
             res |-> [kind |-> "TransitionFailed",
                      requested |-> requested_state, current |-> new_state,
                      has_error |-> al_status.error]]
        ELSE [sd |-> moved, res |-> OkR]

\* match change_requested { Some(requested_state) => ... }
RequestedBranch(sd, al_status, requested_state) ==
    LET new_state == al_status.state.v
        old_state == sd.state
        moved == CommitState(sd, new_state)
    IN  IF new_state > requested_state THEN
            [sd |-> moved,
             res |-> [kind |-> "InvalidStateTransition",
                      requested |-> requested_state, current |-> moved.state]]
        ELSE IF new_state < old_state THEN
            Backward(moved, al_status, old_state, new_state)
        ELSE IF new_state < requested_state THEN
            [sd |-> moved,
             res |-> [kind |-> "TransitionFailed",
                      requested |-> requested_state, current |-> new_state,
                      has_error |-> al_status.error]]
        ELSE [sd |-> moved, res |-> OkR]

\* match change_requested { None => ... }
NoRequestBranch(sd, al_status) ==
    LET new_state == al_status.state.v
        old_state == sd.state
        moved == CommitState(sd, new_state)
    IN  IF ~IsSome(moved.al_control) THEN
            [sd |-> moved,
             res |-> [kind |-> "IllegalTransition", to |-> new_state]]
        ELSE IF new_state < old_state THEN
            Backward(moved, al_status, old_state, new_state)
        ELSE IF new_state > old_state THEN
            [sd |-> moved,
             res |-> [kind |-> "InvalidStateTransition",
                      requested |-> old_state, current |-> new_state]]
        ELSE [sd |-> moved, res |-> OkR]

\* a change_state that takes the nibble of AL Status as the new state whether
\* or not it decodes
ChangeStateUndecoded(sd) ==
    IF ~IsSome(sd.al_status) THEN [sd |-> sd, res |-> OkR]
    ELSE
    LET al_status == Unwrap(sd.al_status)
        change_requested == ChangeRequested(sd)
    IN  IF IsSome(change_requested)
        THEN RequestedBranch(sd, al_status, Unwrap(change_requested))
        ELSE NoRequestBranch(sd, al_status)

\* the uniform ESM transition logic; returns the device and the Result
ChangeState(sd) ==
    IF ~IsSome(sd.al_status) THEN [sd |-> sd, res |-> OkR]
    ELSE
    LET al_status == Unwrap(sd.al_status)
        change_requested == ChangeRequested(sd)
    IN  IF ~al_status.state.ok THEN [sd |-> sd, res |-> OkR]
        ELSE IF IsSome(change_requested)
        THEN RequestedBranch(sd, al_status, Unwrap(change_requested))
        ELSE NoRequestBranch(sd, al_status)

\* al_control from register_wr[AlControl], shared by the BRD and FPRD steppers
RefreshAlControl(sd) ==
    LET iter == ReadRegImpl(sd.register_wr, AlControl, 1) IN
    [sd EXCEPT !.al_control =
        IF IsSome(iter[1]) THEN Some(AlControlNew(Unwrap(iter[1]))) ELSE None]

\* a common that stores the AL Status whether its state decodes or not
BrdCommandStepperCommonKeeps(sd) ==
    LET sd1 == RefreshAlControl(sd)
        iter == ReadRegImpl(sd1.register_brd, AlStatus, 1)
    IN  [sd1 EXCEPT !.al_status =
            IF IsSome(iter[1]) THEN Some(AlStatusNew(Unwrap(iter[1]))) ELSE None]

BrdCommandStepperCommon(sd) ==
    LET sd1 == RefreshAlControl(sd)
        iter == ReadRegImpl(sd1.register_brd, AlStatus, 1)
        al_status ==
            IF IsSome(iter[1]) THEN Some(AlStatusNew(Unwrap(iter[1]))) ELSE None
    IN  [sd1 EXCEPT !.al_status =
            IF IsSome(al_status) /\ Unwrap(al_status).state.ok
            THEN al_status ELSE None]

\* an init that commits the address again when one is already set
AprdCommandStepperInitOverwrites(sd) ==
    LET wr == ReadRegImpl(sd.register_wr, ConfiguredStationAddress, 2)
        rd == ReadRegImpl(sd.register_rd, ConfiguredStationAddress, 2)
    IN  IF ~IsSome(wr[1]) \/ ~IsSome(wr[2]) THEN sd
        ELSE IF ~IsSome(rd[1]) \/ ~IsSome(rd[2]) THEN sd
        ELSE
        LET configued_address_wr == U16FromLeBytes(Unwrap(wr[1]), Unwrap(wr[2]))
            configued_address_rd == U16FromLeBytes(Unwrap(rd[1]), Unwrap(rd[2]))
        IN  IF configued_address_wr # configued_address_rd THEN sd
            ELSE [sd EXCEPT !.configured_address = Some(configued_address_wr)]

AprdCommandStepperInit(sd) ==
    IF IsSome(sd.configured_address) THEN sd
    ELSE
    LET wr == ReadRegImpl(sd.register_wr, ConfiguredStationAddress, 2)
        rd == ReadRegImpl(sd.register_rd, ConfiguredStationAddress, 2)
    IN  IF ~IsSome(wr[1]) \/ ~IsSome(wr[2]) THEN sd
        ELSE IF ~IsSome(rd[1]) \/ ~IsSome(rd[2]) THEN sd
        ELSE
        LET configued_address_wr == U16FromLeBytes(Unwrap(wr[1]), Unwrap(wr[2]))
            configued_address_rd == U16FromLeBytes(Unwrap(rd[1]), Unwrap(rd[2]))
        IN  IF configued_address_wr # configued_address_rd THEN sd
            ELSE [sd EXCEPT !.configured_address = Some(configued_address_wr)]

\* a common that reads AL Status and leaves al_control as it was
FprdCommandStepperCommonStaleControl(sd) ==
    LET iter == ReadRegImpl(sd.register_rd, AlStatus, 1)
    IN  [sd EXCEPT !.al_status =
            IF IsSome(iter[1]) THEN Some(AlStatusNew(Unwrap(iter[1]))) ELSE None]

\* a common that clears al_status when its state does not decode
FprdCommandStepperCommonClears(sd) ==
    LET sd1 == RefreshAlControl(sd)
        iter == ReadRegImpl(sd1.register_rd, AlStatus, 1)
        al_status ==
            IF IsSome(iter[1]) THEN Some(AlStatusNew(Unwrap(iter[1]))) ELSE None
    IN  [sd1 EXCEPT !.al_status =
            IF IsSome(al_status) /\ Unwrap(al_status).state.ok
            THEN al_status ELSE None]

FprdCommandStepperCommon(sd) ==
    LET sd1 == RefreshAlControl(sd)
        iter == ReadRegImpl(sd1.register_rd, AlStatus, 1)
    IN  [sd1 EXCEPT !.al_status =
            IF IsSome(iter[1]) THEN Some(AlStatusNew(Unwrap(iter[1]))) ELSE None]

\* the hook execute runs for the device's current state: only
\* AprdCommandStepper overrides one, init
ExecuteHook(T, sd) ==
    IF T = "Aprd" /\ sd.state = Init_ THEN AprdCommandStepperInit(sd) ELSE sd

\* Self::common(subdevice)
ExecuteCommon(T, sd) ==
    CASE T = "Brd" -> BrdCommandStepperCommon(sd)
      [] T = "Fprd" -> FprdCommandStepperCommon(sd)
      [] OTHER -> sd

\* Self::change_state(subdevice, packet_num); `at_change` is the device as
\* change_state finds it
ExecuteChange(refreshed) ==
    LET r == ChangeState(refreshed) IN
    [sd |-> r.sd, res |-> r.res, at_change |-> refreshed]

\* CommandStepper::execute for the stepper named T: the hook of the current
\* state, then common, then change_state
Execute(T, sd) == ExecuteChange(ExecuteCommon(T, ExecuteHook(T, sd)))

\* the record of a step kept in the log: the device before, as change_state
\* found it, and after, and the Result
StepObs(T, sd, index, r) ==
    [sd |-> r.sd,
     obs |-> [dev |-> index, stepper |-> T, before |-> sd,
              at_change |-> r.at_change, after |-> r.sd, res |-> r.res]]

\* SubDevice::state_machine_step::<T>
StateMachineStep(T, sd, index) == StepObs(T, sd, index, Execute(T, sd))

-----------------------------------------------------------------------------
(* analyzer.rs : DeviceManager and the Command handlers.                   *)
(* A datagram is [command, adp, ado, data, wkc]: address().0 is adp,       *)
(* address().1 is ado and length() is Len(data).  A DeviceManager is the   *)
(* record dm of its five fields.  Every handler returns the manager, the   *)
(* Result and the state-machine steps it ran.                              *)

DeviceManagerNew ==
    [uninitialized |-> TRUE,
     num_frames |-> 0,
     expected_wkc |-> 0,
     devices |-> <<>>,
     config_address_map |-> EmptyMap]

\* usize arithmetic wraps at 2^64; the model wraps at 2^30, which keeps every
\* comparison with devices.len() <= 65535 as it is
UsizeMod == 2^30

WrappingSubU16(a, b) == (a - b + U16) % U16

WrappingSubUsize(a, b) == (a - b + UsizeMod) % UsizeMod

MapInsert(map, key, value) ==
    [k \in (DOMAIN map) \cup {key} |-> IF k = key THEN value ELSE map[k]]

\* a BRD override that forgets the direction: an outbound BRD initializes too
UninitializedAnyDirection(dm, dg, from_main) ==
    IF dg.command = BRD /\ dm.uninitialized
    THEN [dm |-> [dm EXCEPT !.devices = [i \in 1..dg.wkc |-> SubDeviceNew],
                            !.uninitialized = FALSE],
          ret |-> FALSE]
    ELSE [dm |-> dm, ret |-> dm.uninitialized]

\* a BRD override that never looks at the flag: every inbound BRD builds the
\* roster anew
UninitializedEveryBrd(dm, dg, from_main) ==
    IF dg.command = BRD /\ ~from_main
    THEN [dm |-> [dm EXCEPT !.devices = [i \in 1..dg.wkc |-> SubDeviceNew],
                            !.uninitialized = FALSE],
          ret |-> FALSE]
    ELSE [dm |-> dm, ret |-> dm.uninitialized]

\* Command::uninitialized: the default, and the override of BrdCommand
Uninitialized(dm, dg, from_main) ==
    IF dg.command = BRD /\ dm.uninitialized /\ ~from_main
    THEN [dm |-> [dm EXCEPT !.devices = [i \in 1..dg.wkc |-> SubDeviceNew],
                            !.uninitialized = FALSE],
          ret |-> FALSE]
    ELSE [dm |-> dm, ret |-> dm.uninitialized]

\* a check that accepts every working counter
CheckWkcAccepts(dm, dg, from_main) == [dm |-> dm, ret |-> TRUE]

\* Command::check_wkc of the six handlers
CheckWkc(dm, dg, from_main) ==
    IF from_main THEN [dm |-> dm, ret |-> TRUE]
    ELSE
    LET expected == IF dg.command \in {BRD, BWR}
                    THEN Len(dm.devices) % U16 ELSE 1
    IN  [dm |-> [dm EXCEPT !.expected_wkc = expected],
         ret |-> (dg.wkc = expected)]

\* the roster and the log after every device has been written and stepped
BrdStepped(dm, stepped) ==
    [dm |-> [dm EXCEPT !.devices =
                [i \in 1..Len(dm.devices) |-> stepped[i].sd]],
     res |-> OkR,
     steps |-> [i \in 1..Len(dm.devices) |-> stepped[i].obs]]

\* a BRD handler that writes and steps on the way out as well
BrdProcessAnyDirection(dm, dg, from_main) ==
    BrdStepped(dm,
        [i \in 1..Len(dm.devices) |->
            StateMachineStep("Brd",
                WriteRegBrd(dm.devices[i], dg.ado, dg.data), i - 1)])

BrdProcess(dm, dg, from_main) ==
    IF from_main THEN [dm |-> dm, res |-> OkR, steps |-> <<>>]
    ELSE BrdStepped(dm,
            [i \in 1..Len(dm.devices) |->
                StateMachineStep("Brd",
                    WriteRegBrd(dm.devices[i], dg.ado, dg.data), i - 1)])

BwrProcess(dm, dg, from_main) ==
    IF ~from_main THEN [dm |-> dm, res |-> OkR, steps |-> <<>>]
    ELSE [dm |-> [dm EXCEPT !.devices =
                    [i \in 1..Len(dm.devices) |->
                        WriteRegWr(dm.devices[i], dg.ado, dg.data)]],
          res |-> OkR, steps |-> <<>>]

\* an index computed as on the way out in both directions
SubdeviceIndexOutbound(dm, dg, from_main) == WrappingSubU16(0, dg.adp)

\* the bus index APWR and APRD compute from the position field
SubdeviceIndex(dm, dg, from_main) ==
    IF from_main THEN WrappingSubU16(0, dg.adp)
    ELSE WrappingSubUsize(Len(dm.devices), dg.adp)

ApwrProcess(dm, dg, from_main) ==
    LET subdevice_index == SubdeviceIndex(dm, dg, from_main) IN
    IF subdevice_index >= Len(dm.devices)
    THEN [dm |-> dm,
          res |-> [kind |-> "InvalidAutoIncrementAddress", addr |-> dg.adp],
          steps |-> <<>>]
    ELSE IF ~from_main
    THEN [dm |-> [dm EXCEPT !.devices[subdevice_index + 1] =
                    WriteRegWr(@, dg.ado, dg.data)],
          res |-> OkR, steps |-> <<>>]
    ELSE [dm |-> dm, res |-> OkR, steps |-> <<>>]

\* the device stored back, and config_address_map left as it was
AprdSteppedNoInsert(dm, subdevice_index, r) ==
    [dm |-> [dm EXCEPT !.devices[subdevice_index + 1] = r.sd],
     res |-> OkR, steps |-> <<r.obs>>]

\* the device stored back, and its configured address, if it has one, entered
\* in config_address_map
AprdStepped(dm, subdevice_index, r) ==
    [dm |-> [dm EXCEPT
                !.devices[subdevice_index + 1] = r.sd,
                !.config_address_map =
                    IF IsSome(r.sd.configured_address)
                    THEN MapInsert(@, Unwrap(r.sd.configured_address),
                                   subdevice_index)
                    ELSE @],
     res |-> OkR, steps |-> <<r.obs>>]

AprdProcess(dm, dg, from_main) ==
    LET subdevice_index == SubdeviceIndex(dm, dg, from_main) IN
    IF subdevice_index >= Len(dm.devices)
    THEN [dm |-> dm,
          res |-> [kind |-> "InvalidAutoIncrementAddress", addr |-> dg.adp],
          steps |-> <<>>]
    ELSE IF ~from_main
    THEN AprdStepped(dm, subdevice_index,
            StateMachineStep("Aprd",
                WriteRegRd(dm.devices[subdevice_index + 1], dg.ado, dg.data),
                subdevice_index))
    ELSE [dm |-> dm, res |-> OkR, steps |-> <<>>]

FpwrProcess(dm, dg, from_main) ==
    IF ~from_main THEN [dm |-> dm, res |-> OkR, steps |-> <<>>]
    ELSE IF dg.adp \notin DOMAIN dm.config_address_map
    THEN [dm |-> dm,
          res |-> [kind |-> "InvalidConfiguredAddress", addr |-> dg.adp],
          steps |-> <<>>]
    ELSE [dm |-> [dm EXCEPT !.devices[dm.config_address_map[dg.adp] + 1] =
                    WriteRegWr(@, dg.ado, dg.data)],
          res |-> OkR, steps |-> <<>>]

\* the device stored back
FprdStepped(dm, index, r) ==
    [dm |-> [dm EXCEPT !.devices[index + 1] = r.sd],
     res |-> OkR, steps |-> <<r.obs>>]

FprdProcess(dm, dg, from_main) ==
    IF dg.adp \notin DOMAIN dm.config_address_map
    THEN [dm |-> dm,
          res |-> [kind |-> "InvalidConfiguredAddress", addr |-> dg.adp],
          steps |-> <<>>]
    ELSE IF ~from_main
    THEN FprdStepped(dm, dm.config_address_map[dg.adp],
            StateMachineStep("Fprd",
                WriteRegRd(dm.devices[dm.config_address_map[dg.adp] + 1],
                           dg.ado, dg.data),
                dm.config_address_map[dg.adp]))
    ELSE [dm |-> dm, res |-> OkR, steps |-> <<>>]

\* Command::process of the handler the command dispatches to
Process(dm, dg, from_main) ==
    CASE dg.command = BRD -> BrdProcess(dm, dg, from_main)
      [] dg.command = BWR -> BwrProcess(dm, dg, from_main)
      [] dg.command = APWR -> ApwrProcess(dm, dg, from_main)
      [] dg.command = APRD -> AprdProcess(dm, dg, from_main)
      [] dg.command = FPWR -> FpwrProcess(dm, dg, from_main)
      [] dg.command = FPRD -> FprdProcess(dm, dg, from_main)

\* the commands analyze_packet has a handler for; the others fall to `_ => {}`
Handled == {BRD, BWR, APWR, APRD, FPWR, FPRD}

\* Command::process_common
\* process_common from check_wkc on; c is what check_wkc returned
ProcessChecked(c, dg, from_main) ==
    IF ~c.ret
    THEN [dm |-> c.dm,
          res |-> [kind |-> "InvalidWkc",
                   packet_number |-> c.dm.num_frames,
                   command |-> dg.command,
                   from_main |-> from_main,
                   expected |-> c.dm.expected_wkc,
                   actual |-> dg.wkc],
          steps |-> <<>>]
    ELSE Process(c.dm, dg, from_main)

\* process_common from uninitialized on; u is what uninitialized returned
ProcessInitialized(u, dg, from_main) ==
    IF u.ret THEN [dm |-> u.dm, res |-> OkR, steps |-> <<>>]
    ELSE ProcessChecked(CheckWkc(u.dm, dg, from_main), dg, from_main)

ProcessCommon(dm, dg, from_main) ==
    ProcessInitialized(Uninitialized(dm, dg, from_main), dg, from_main)

\* one iteration of the dispatch loop of analyze_packet
Dispatch(dm, dg, from_main) ==
    IF dg.command \in Handled
    THEN ProcessCommon(dm, dg, from_main)
    ELSE [dm |-> dm, res |-> OkR, steps |-> <<>>]

\* the dispatch loop of analyze_packet: `?` returns at the first Err, so the
\* datagrams after it are not dispatched.  One log entry per dispatched
\* datagram.
RECURSIVE DispatchAll(_, _, _, _)
RECURSIVE Dispatched(_, _, _, _, _)
DispatchAll(dm, datagrams, from_main, entries) ==
    IF datagrams = <<>> THEN [dm |-> dm, res |-> OkR, log |-> entries]
    ELSE Dispatched(dm, datagrams, from_main, entries,
                    Dispatch(dm, Head(datagrams), from_main))

\* r is what the handler of the first datagram returned
Dispatched(dm, datagrams, from_main, entries, r) ==
    IF r.res.kind # "Ok"
    THEN [dm |-> r.dm, res |-> r.res,
          log |-> Append(entries,
                    [dg |-> Head(datagrams), from_main |-> from_main,
                     before |-> dm, after |-> r.dm, res |-> r.res,
                     steps |-> r.steps])]
    ELSE DispatchAll(r.dm, Tail(datagrams), from_main,
                     Append(entries,
                        [dg |-> Head(datagrams), from_main |-> from_main,
                         before |-> dm, after |-> r.dm, res |-> r.res,
                         steps |-> r.steps]))

\* an analyze_packet that counts the frame before it looks at it
AnalyzePacketOnCountsAll(dm, pkt) ==
    IF pkt.protocol_type # 1
    THEN [dm |-> [dm EXCEPT !.num_frames = @ + 1],
          res |-> [kind |-> "InvalidDatagram", err |-> "InvalidHeader"],
          log |-> <<>>]
    ELSE IF ~pkt.parsed.ok
    THEN [dm |-> [dm EXCEPT !.num_frames = @ + 1],
          res |-> [kind |-> "InvalidDatagram", err |-> pkt.parsed.err],
          log |-> <<>>]
    ELSE DispatchAll([dm EXCEPT !.num_frames = @ + 1],
                     pkt.parsed.datagrams, pkt.from_main, <<>>)

\* DeviceManager::analyze_packet.  A packet is [from_main, protocol_type,
\* parsed]: parsed is what parse_datagram returns for its bytes, either
\* [ok |-> TRUE, datagrams |-> ...] or [ok |-> FALSE, err |-> ...].
AnalyzePacketOn(dm, pkt) ==
    IF pkt.protocol_type # 1
    THEN [dm |-> dm,
          res |-> [kind |-> "InvalidDatagram", err |-> "InvalidHeader"],
          log |-> <<>>]
    ELSE IF ~pkt.parsed.ok
    THEN [dm |-> dm,
          res |-> [kind |-> "InvalidDatagram", err |-> pkt.parsed.err],
          log |-> <<>>]
    ELSE DispatchAll([dm EXCEPT !.num_frames = @ + 1],
                     pkt.parsed.datagrams, pkt.from_main, <<>>)

-----------------------------------------------------------------------------
(* ec_packet.rs : ECFrame and ECDatagram over the bytes of a captured      *)
(* frame.  A byte slice is a sequence of numbers in 0..255; data[i] of the *)
(* source is data[i + 1] here.  Result<T, ECPacketError> is                *)
(* [ok |-> TRUE, v |-> ...] or [ok |-> FALSE, err |-> ...].                *)

\* &data[from..]
SliceFrom(data, from) == SubSeq(data, from + 1, Len(data))

\* &data[from..to]
Slice(data, from, to) == SubSeq(data, from + 1, to)

\* ECFrame::new
ECFrameNew(data) ==
    IF Len(data) < 2 THEN None
    ELSE
    LET header == U16FromLeBytes(data[1], data[2]) IN
    Some([total_length |-> header % 2048,
          type_field |-> (header \div 4096) % 16,
          payload |-> SliceFrom(data, 2)])

\* a datagram that does not keep the circular flag
ECDatagramOfNoCircular(data, info, length) ==
    [command |-> data[1],
     index |-> data[2],
     address |-> data[3] + 256 * data[4] + 65536 * data[5]
                    + 16777216 * data[6],
     length |-> length,
     circular |-> FALSE,
     more |-> ((info \div 32768) % 2 = 1),
     irq |-> U16FromLeBytes(data[9], data[10]),
     payload |-> Slice(data, 10, 10 + length),
     wkc |-> U16FromLeBytes(data[10 + length + 1], data[10 + length + 2]),
     adp |-> U16FromLeBytes(data[3], data[4]),
     ado |-> U16FromLeBytes(data[5], data[6]),
     data |-> Slice(data, 10, 10 + length)]

\* the datagram ECDatagram::new builds once the lengths have been checked.
\* adp and ado are address().0 and address().1 of the handlers, data is
\* payload()[0..length()]
ECDatagramOf(data, info, length) ==
    [command |-> data[1],
     index |-> data[2],
     address |-> data[3] + 256 * data[4] + 65536 * data[5]
                    + 16777216 * data[6],
     length |-> length,
     circular |-> ((info \div 16384) % 2 = 1),
     more |-> ((info \div 32768) % 2 = 1),
     irq |-> U16FromLeBytes(data[9], data[10]),
     payload |-> Slice(data, 10, 10 + length),
     wkc |-> U16FromLeBytes(data[10 + length + 1], data[10 + length + 2]),
     adp |-> U16FromLeBytes(data[3], data[4]),
     ado |-> U16FromLeBytes(data[5], data[6]),
     data |-> Slice(data, 10, 10 + length)]

\* an index or a slice bound outside the slice: the thread panics
Panic == [ok |-> FALSE, err |-> "panic"]

\* &data[10..10 + length], data[wkc_offset] and data[wkc_offset + 1], then
\* Ok(Some(ECDatagram { .. }))
ECDatagramBuilt(data, info, length) ==
    IF 10 + length + 2 > Len(data) THEN Panic
    ELSE [ok |-> TRUE, v |-> Some(ECDatagramOf(data, info, length))]

\* length checks that compare with the declared length alone
ECDatagramCheckedDeclaredOnly(data, total_length, info) ==
    IF (info % 2048) + 10 + 2 > total_length
    THEN [ok |-> FALSE, err |-> "InvalidDatalength"]
    ELSE ECDatagramBuilt(data, info, info % 2048)

\* the length checks of ECDatagram::new; info is bytes 6 and 7
ECDatagramChecked(data, total_length, info) ==
    IF (info % 2048) + 10 + 2 > Len(data)
        \/ (info % 2048) + 10 + 2 > total_length
    THEN [ok |-> FALSE, err |-> "InvalidDatalength"]
    ELSE ECDatagramBuilt(data, info, info % 2048)

\* ECDatagram::new
ECDatagramNew(data, total_length) ==
    IF total_length = 0 THEN [ok |-> TRUE, v |-> None]
    ELSE IF Len(data) < 10 THEN [ok |-> FALSE, err |-> "InvalidDatalength"]
    ELSE ECDatagramChecked(data, total_length,
                           U16FromLeBytes(data[7], data[8]))

\* a parse that accepts whatever the loop leaves behind
ParseEndUnchecked(remaining_length, datagrams) ==
    [ok |-> TRUE, datagrams |-> datagrams]

\* parse_datagram after its loop
ParseEnd(remaining_length, datagrams) ==
    IF remaining_length # 0 \/ datagrams = <<>>
    THEN [ok |-> FALSE, err |-> "InvalidHeader"]
    ELSE [ok |-> TRUE, datagrams |-> datagrams]

\* the loop of parse_datagram; r is what ECDatagram::new returned for the
\* bytes at total_length - remaining_length
RECURSIVE ParseLoop(_, _, _)
RECURSIVE ParseStep(_, _, _, _)
ParseLoop(frame, remaining_length, datagrams) ==
    IF remaining_length > 0
    THEN IF frame.total_length - remaining_length > Len(frame.payload)
         THEN Panic
         ELSE
         ParseStep(frame, remaining_length, datagrams,
            ECDatagramNew(
                SliceFrom(frame.payload,
                          frame.total_length - remaining_length),
                remaining_length))
    ELSE ParseEnd(remaining_length, datagrams)

ParseStep(frame, remaining_length, datagrams, r) ==
    IF ~r.ok THEN [ok |-> FALSE, err |-> r.err]
    ELSE IF IsSome(r.v)
    THEN ParseLoop(frame,
                   remaining_length - (10 + Unwrap(r.v).length + 2),
                   Append(datagrams, Unwrap(r.v)))
    ELSE ParseEnd(remaining_length, datagrams)

\* ECFrame::parse_datagram
ParseDatagram(frame) == ParseLoop(frame, frame.total_length, <<>>)

-----------------------------------------------------------------------------
(* Inputs.                                                                 *)

Wkcs == 0..MaxDevices

\* register range and bytes a datagram carries
Payloads ==
    {[ado |-> AlStatus, data |-> <<1>>],
     [ado |-> AlStatus, data |-> <<2>>],
     [ado |-> AlStatus, data |-> <<5>>],
     [ado |-> AlControl, data |-> <<2>>],
     [ado |-> ConfiguredStationAddress, data |-> <<52, 18>>]}

\* position fields: 0 and 0xFFFF address devices 0 and 1 outbound, n - i
\* addresses device i inbound
Positions == {0, 1, 65535}

\* station addresses: 0x1234 is the one the payloads assign
Stations == {4660, 0}

Datagram(c, p, pl, w) ==
    [command |-> c, adp |-> p, ado |-> pl.ado, data |-> pl.data, wkc |-> w]

Datagrams ==
    {Datagram(c, 0, pl, w) : c \in {BRD, BWR, BRW, LRW}, pl \in Payloads, w \in Wkcs}
    \cup
    {Datagram(c, p, pl, w) :
        c \in {APRD, APWR, ARMW}, p \in Positions, pl \in Payloads, w \in Wkcs}
    \cup
    {Datagram(c, a, pl, w) :
        c \in {FPRD, FPWR, FRMW}, a \in Stations, pl \in Payloads, w \in Wkcs}

\* the datagrams of the frames that chain more than one
ChainDatagrams ==
    {Datagram(BRD, 0, [ado |-> AlStatus, data |-> <<2>>], 1),
     Datagram(BRD, 0, [ado |-> AlStatus, data |-> <<1>>], 0),
     Datagram(APRD, 1, [ado |-> ConfiguredStationAddress, data |-> <<52, 18>>], 0),
     Datagram(FPRD, 4660, [ado |-> AlStatus, data |-> <<2>>], 1),
     Datagram(BWR, 0, [ado |-> AlControl, data |-> <<2>>], 0),
     Datagram(BRW, 0, [ado |-> AlControl, data |-> <<2>>], 0)}

RECURSIVE SeqsOfLen(_, _)
SeqsOfLen(S, n) ==
    IF n = 0 THEN {<<>>}
    ELSE {<<x>> \o t : x \in S, t \in SeqsOfLen(S, n - 1)}

Chains ==
    {<<d>> : d \in Datagrams}
    \cup UNION {SeqsOfLen(ChainDatagrams, n) : n \in 2..MaxDatagrams}

Packets ==
    {[from_main |-> f, protocol_type |-> 1,
      parsed |-> [ok |-> TRUE, datagrams |-> ds]] :
        f \in BOOLEAN, ds \in Chains}
    \cup
    {[from_main |-> f, protocol_type |-> 1,
      parsed |-> [ok |-> FALSE, err |-> e]] :
        f \in BOOLEAN, e \in {"InvalidHeader", "InvalidDatalength"}}
    \cup
    {[from_main |-> f, protocol_type |-> 4,
      parsed |-> [ok |-> TRUE,
                  datagrams |-> <<Datagram(BRD, 0, [ado |-> AlStatus, data |-> <<1>>], 1)>>]] :
        f \in BOOLEAN}

-----------------------------------------------------------------------------
(* The analyzer loop of main.rs.                                           *)

DM ==
    [uninitialized |-> uninitialized,
     num_frames |-> num_frames,
     expected_wkc |-> expected_wkc,
     devices |-> devices,
     config_address_map |-> config_address_map]

\* the frames are handed to the loop directly: no thread, no channel
NoPipe ==
    /\ mode = "direct"
    /\ running = TRUE
    /\ source = [pc |-> "done", hand |-> None, left |-> 0,
                 initial_frame |-> TRUE, src_mac |-> 0, seen |-> <<>>,
                  read |-> 0, allocs |-> 0]
    /\ rx_data = <<>>
    /\ rx_recycle = 0
    /\ writer = [pc |-> "none", queue |-> 0]
    /\ ctrlc = "idle"
    /\ delivered = <<>>
    /\ analyzed = <<>>

Init ==
    /\ uninitialized = DeviceManagerNew.uninitialized
    /\ num_frames = DeviceManagerNew.num_frames
    /\ expected_wkc = DeviceManagerNew.expected_wkc
    /\ devices = DeviceManagerNew.devices
    /\ config_address_map = DeviceManagerNew.config_address_map
    /\ pc = "recv"
    /\ packet = None
    /\ result = None
    /\ log = <<>>
    /\ NoPipe

\* recv(rx_data) -> Ok(CapturedData): the next captured frame arrives
RecvFrom(P, max) ==
    /\ pc = "recv"
    /\ num_frames < max
    /\ \E pkt \in P : packet' = Some(pkt)
    /\ pc' = "analyze"
    /\ UNCHANGED <<uninitialized, num_frames, expected_wkc, devices,
                   config_address_map, result, log>>
    /\ UNCHANGED pipe_vars

Recv == RecvFrom(Packets, MaxFrames)

\* the manager analyze_packet leaves behind, and `result`
Analyzed(r) ==
    /\ uninitialized' = r.dm.uninitialized
    /\ num_frames' = r.dm.num_frames
    /\ expected_wkc' = r.dm.expected_wkc
    /\ devices' = r.dm.devices
    /\ config_address_map' = r.dm.config_address_map
    /\ result' = Some(r.res)
    /\ log' = r.log

\* device_manager.analyze_packet(&ethercat_packet, timestamp, from_main)
AnalyzePacket ==
    /\ pc = "analyze"
    /\ Analyzed(AnalyzePacketOn(DM, Unwrap(packet)))
    /\ pc' = "report"
    /\ UNCHANGED packet
    /\ UNCHANGED pipe_vars

\* tx_buffer.send(packet) and report_errors(error): the buffer goes back to the
\* source and the iteration's result is consumed
Report ==
    /\ pc = "report"
    /\ pc' = "recv"
    /\ packet' = None
    /\ result' = None
    /\ log' = <<>>
    /\ UNCHANGED <<uninitialized, num_frames, expected_wkc, devices,
                   config_address_map>>
    /\ UNCHANGED pipe_vars

Next == Recv \/ AnalyzePacket \/ Report

Spec == Init /\ [][Next]_vars

-----------------------------------------------------------------------------
(* The same analyzer on the traffic of a one-device bus, with every AL     *)
(* state byte of interest: the frames a main device exchanges with one     *)
(* subdevice, all with the working counter the bus returns.                *)

\* AL Status bytes: Init, PreOp, Bootstrap, SafeOp, Op, PreOp with the error
\* flag, and
\* a nibble that is no state
StatusBytes == {1, 2, 3, 4, 8, 18, 5}

\* AL Control bytes: Init, PreOp, SafeOp, Op, and a nibble that is no state
ControlBytes == {1, 2, 4, 8, 0}

EsmDatagrams ==
    {Datagram(BRD, 0, [ado |-> AlStatus, data |-> <<b>>], 1) : b \in StatusBytes}
    \cup
    {Datagram(BWR, 0, [ado |-> AlControl, data |-> <<b>>], 0) : b \in ControlBytes}
    \cup
    {Datagram(BWR, 0, [ado |-> ConfiguredStationAddress, data |-> <<52, 18>>], 0)}
    \cup
    {Datagram(APRD, 1, [ado |-> ConfiguredStationAddress, data |-> <<52, 18>>], 1),
     Datagram(APRD, 1, [ado |-> AlStatusCode, data |-> <<1, 0>>], 1),
     Datagram(APRD, 1, [ado |-> AlStatus, data |-> <<8>>], 1)}
    \cup
    {Datagram(FPWR, 4660, [ado |-> AlControl, data |-> <<b>>], 0) : b \in ControlBytes}
    \cup
    {Datagram(FPRD, 4660, [ado |-> AlStatus, data |-> <<b>>], 1) : b \in StatusBytes}

\* reads and their answers come back from the ring, writes are seen on the
\* way out
EsmPackets ==
    {[from_main |-> (d.command \in {BWR, FPWR}), protocol_type |-> 1,
      parsed |-> [ok |-> TRUE, datagrams |-> <<d>>]] : d \in EsmDatagrams}

RecvEsm == RecvFrom(EsmPackets, MaxEsmFrames)

NextESM == RecvEsm \/ AnalyzePacket \/ Report

SpecESM == Init /\ [][NextESM]_vars

-----------------------------------------------------------------------------
(* The same analyzer on the register traffic of a bus of one or two        *)
(* devices: every handled command in both directions, with a payload that  *)
(* wraps from offset 0xFFFF to offset 0x0000.                              *)

RegPayloads ==
    {[ado |-> 65535, data |-> <<7, 9>>],
     [ado |-> ConfiguredStationAddress, data |-> <<52, 18>>]}

RegDatagrams ==
    {Datagram(BRD, 0, [ado |-> AlStatus, data |-> <<1>>], w) : w \in {1, 2}}
    \cup
    {Datagram(BRD, 0, [ado |-> 65535, data |-> <<7, 9>>], 1)}
    \cup
    {Datagram(BWR, 0, pl, 1) : pl \in RegPayloads}
    \cup
    {Datagram(APRD, p, pl, 1) : p \in {1, 65535}, pl \in RegPayloads}
    \cup
    {Datagram(c, 4660, [ado |-> 65535, data |-> <<7, 9>>], 1) : c \in {FPWR, FPRD}}

\* every datagram is seen on its way out and on its way back
RegPackets ==
    {[from_main |-> f, protocol_type |-> 1,
      parsed |-> [ok |-> TRUE, datagrams |-> <<d>>]] :
        f \in BOOLEAN, d \in RegDatagrams}

RecvReg == RecvFrom(RegPackets, MaxRegFrames)

NextReg == RecvReg \/ AnalyzePacket \/ Report

SpecReg == Init /\ [][NextReg]_vars

-----------------------------------------------------------------------------
(* The same analyzer on the traffic that assigns station addresses on a    *)
(* bus of one or two devices: writes of 0x1234, of 0x1235 and of a single  *)
(* byte to ConfiguredStationAddress, the reads that answer them, a         *)
(* broadcast read of the same register, and                                *)
(* configured-address commands to a station that exists and to one that    *)
(* does not.                                                               *)

AddrPayloads ==
    {[ado |-> ConfiguredStationAddress, data |-> <<52, 18>>],
     [ado |-> ConfiguredStationAddress, data |-> <<53, 18>>],
     [ado |-> ConfiguredStationAddress, data |-> <<52>>]}

AddrDatagrams ==
    {Datagram(BRD, 0, [ado |-> AlStatus, data |-> <<b>>], w) :
        b \in {1, 2}, w \in {1, 2}}
    \cup
    {Datagram(BRD, 0, [ado |-> ConfiguredStationAddress, data |-> <<0, 0>>], w) :
        w \in {1, 2}}
    \cup
    {Datagram(BWR, 0, pl, 0) : pl \in AddrPayloads}
    \cup
    {Datagram(APWR, 1, [ado |-> ConfiguredStationAddress, data |-> <<53, 18>>], 1)}
    \cup
    {Datagram(APRD, p, pl, 1) : p \in {1, 2}, pl \in AddrPayloads}
    \cup
    {Datagram(FPWR, 4660, [ado |-> AlControl, data |-> <<2>>], 0),
     Datagram(FPRD, 4660, [ado |-> AlStatus, data |-> <<2>>], 1),
     Datagram(FPRD, 4661, [ado |-> AlStatus, data |-> <<2>>], 1)}

\* reads and their answers come back from the ring, broadcast and
\* configured-address writes are seen on the way out; an APRD is also seen on
\* its way out
AddrPackets ==
    {[from_main |-> (d.command \in {BWR, FPWR}), protocol_type |-> 1,
      parsed |-> [ok |-> TRUE, datagrams |-> <<d>>]] : d \in AddrDatagrams}
    \cup
    {[from_main |-> TRUE, protocol_type |-> 1,
      parsed |-> [ok |-> TRUE, datagrams |->
        <<Datagram(APRD, 0,
            [ado |-> ConfiguredStationAddress, data |-> <<52, 18>>], 0)>>]]}

RecvAddr == RecvFrom(AddrPackets, MaxAddrFrames)

NextAddr == RecvAddr \/ AnalyzePacket \/ Report

SpecAddr == Init /\ [][NextAddr]_vars

-----------------------------------------------------------------------------
(* The same analyzer on captured bytes: every frame is decoded by          *)
(* ECFrame::new and parse_datagram before it is dispatched.  The frames    *)
(* are built from datagram images with every flag of the info word, and    *)
(* their declared total_length and the bytes behind it disagree in every   *)
(* way the decoder distinguishes.                                          *)

\* the bytes of one datagram on the wire: 10 bytes of header, the payload and
\* the working counter
Image(command, index, adp, ado, info, irq, payload, wkc) ==
    <<command, index, adp % 256, adp \div 256, ado % 256, ado \div 256,
      info % 256, info \div 256, irq % 256, irq \div 256>>
    \o payload \o <<wkc % 256, wkc \div 256>>

\* the bits of the info word above the length: none, more, circular, and the
\* lowest of the three reserved bits
InfoFlags == {0, 32768, 16384, 2048}

DecPayloads == {<<>>, <<2>>, <<1, 0>>}

\* index and irq of a datagram header
DecTags == {[index |-> 0, irq |-> 0], [index |-> 5, irq |-> 513]}

DecImages ==
    {Image(c, t.index, 0, AlStatus, Len(pl) + fl, t.irq, pl, w) :
        c \in {BRD, BWR}, t \in DecTags, fl \in InfoFlags,
        pl \in DecPayloads, w \in {0, 1}}

\* the images of the frames that chain two datagrams
DecChainImages ==
    {Image(BRD, 0, 0, AlStatus, Len(pl) + fl, 0, pl, 1) :
        fl \in {0, 32768}, pl \in {<<>>, <<2>>}}

\* frame bodies, with the on-wire size of their first datagram
DecBodies ==
    {[first |-> Len(i), bytes |-> i] : i \in DecImages}
    \cup
    {[first |-> Len(i), bytes |-> i \o j] :
        i \in DecChainImages, j \in DecChainImages}

\* the body as sent, with a byte of padding behind it, and cut one byte short
DecCuts(b) ==
    {b.bytes, b.bytes \o <<0>>, SubSeq(b.bytes, 1, Len(b.bytes) - 1)}

\* the lengths a frame header declares for a body
DecTotalLengths(b) ==
    {0, b.first, Len(b.bytes), Len(b.bytes) + 1, Len(b.bytes) - 1}

\* the 2-byte frame header, then the body
FrameBytes(total_length, type, body) ==
    <<total_length % 256, (total_length \div 256) + 16 * type>> \o body

\* the EtherCAT payloads of the captured frames; the last one is too short
\* for a frame header
DecFrames ==
    UNION {{FrameBytes(tl, ty, x) :
                tl \in DecTotalLengths(b), ty \in {1, 4}, x \in DecCuts(b)} :
            b \in DecBodies}
    \cup {<<1>>}

\* CapturedData as the source sends it
DecCaptured == {[from_main |-> f, data |-> d] : f \in BOOLEAN, d \in DecFrames}

\* the packet analyze_packet is given: the ECFrame, its protocol_type(), and
\* what parse_datagram returns for it
PacketOf(from_main, frame) ==
    [from_main |-> from_main,
     protocol_type |-> frame.type_field,
     parsed |-> ParseDatagram(frame),
     frame |-> frame]

\* frame is what ECFrame::new returned: on None the loop warns and continues
Decoded(from_main, frame) ==
    IF frame = None
    THEN pc' = "recv" /\ UNCHANGED packet
    ELSE pc' = "analyze" /\ packet' = Some(PacketOf(from_main, Unwrap(frame)))

\* recv(rx_data) -> Ok(CapturedData) and ECFrame::new(packet.as_ref())
RecvDec ==
    /\ pc = "recv"
    /\ num_frames < MaxDecFrames
    /\ \E c \in DecCaptured : Decoded(c.from_main, ECFrameNew(c.data))
    /\ UNCHANGED <<uninitialized, num_frames, expected_wkc, devices,
                   config_address_map, result, log>>
    /\ UNCHANGED pipe_vars

NextDec == RecvDec \/ AnalyzePacket \/ Report

SpecDec == Init /\ [][NextDec]_vars

-----------------------------------------------------------------------------
(* The threads of packet_source.rs around the analyzer loop of main.rs:    *)
(* the source thread (replay of a capture file, or live capture), the data *)
(* channel, the recycle channel, the writer thread of a live capture, and  *)
(* the Ctrl-C handler.  A CapturedData is [timestamp, from_main, data];    *)
(* its timestamp is the ordinal of the frame in the capture.               *)

\* the EtherCAT payloads of the capture: a frame of two BRD datagrams, a frame
\* of another protocol type, and one too short for a frame header
PipeFrames ==
    {FrameBytes(26, 1,
        Image(BRD, 0, 0, AlStatus, 1 + 32768, 0, <<2>>, 1)
        \o Image(BRD, 1, 0, AlStatus, 1, 0, <<1>>, 1)),
     FrameBytes(13, 4, Image(BRD, 0, 0, AlStatus, 1, 0, <<1>>, 1)),
     <<1>>}

\* the source addresses of the Ethernet frames; MacAddr::zero() is 0
Macs == {1, 2}

\* the Ethernet frames of a capture, in a file or on the wire: EtherCAT frames
\* from either address and an IPv4 frame
FileRecords ==
    {[ethertype |-> 34980, source |-> m, payload |-> f] :
        m \in Macs, f \in PipeFrames}
    \cup {[ethertype |-> 2048, source |-> 1, payload |-> <<69, 0>>]}

\* the frames on the wire of a live capture, whose thread does not look at
\* the source address
WireRecords == {rec \in FileRecords : rec.source = 1}

\* bounded(channel_size) of the data channel: 0 in start_read_pcap, and
\* LiveChannelSize standing for the 100 of start_packet_receive
Depth == IF mode = "file" THEN 0 ELSE LiveChannelSize

\* bounded(channel_size * 2) of the writer's channel
WriterDepth == 2 * LiveChannelSize

\* main still holds rx_data and tx_buffer: it drops them when its loop ends
RxOpen == pc \in {"recv", "analyze", "report"}

\* the state after start_read_pcap or start_packet_receive has returned; the
\* capture holds `left` records, and a live capture may write to a file
InitPipe ==
    /\ uninitialized = DeviceManagerNew.uninitialized
    /\ num_frames = DeviceManagerNew.num_frames
    /\ expected_wkc = DeviceManagerNew.expected_wkc
    /\ devices = DeviceManagerNew.devices
    /\ config_address_map = DeviceManagerNew.config_address_map
    /\ pc = "recv"
    /\ packet = None
    /\ result = None
    /\ log = <<>>
    /\ mode \in {"file", "live"}
    /\ running = TRUE
    /\ \E n \in 0..MaxCaptured :
        source = [pc |-> "read", hand |-> None, left |-> n,
                  initial_frame |-> TRUE, src_mac |-> 0, seen |-> <<>>,
                  read |-> 0, allocs |-> 0]
    /\ rx_data = <<>>
    /\ rx_recycle = 0
    /\ \E w \in {"none", "select"} :
        /\ mode = "file" => w = "none"
        /\ writer = [pc |-> w, queue |-> 0]
    /\ ctrlc = "idle"
    /\ delivered = <<>>
    /\ analyzed = <<>>

analyzer_vars == <<uninitialized, num_frames, expected_wkc, devices,
                   config_address_map, pc, packet, result, log>>

\* a source thread that never looks into the recycle channel
AcquireAlways(src, msg) ==
    /\ source' = [src EXCEPT !.pc = "send", !.hand = Some(msg),
                             !.allocs = @ + 1]
    /\ UNCHANGED rx_recycle

\* rx_recycle.try_recv() or BytesMut::with_capacity, then the frame is copied
\* into the buffer; src is the thread after it has read the frame
Acquire(src, msg) ==
    IF rx_recycle > 0
    THEN /\ rx_recycle' = rx_recycle - 1
         /\ source' = [src EXCEPT !.pc = "send", !.hand = Some(msg)]
    ELSE /\ UNCHANGED rx_recycle
         /\ source' = [src EXCEPT !.pc = "send", !.hand = Some(msg),
                                  !.allocs = @ + 1]

\* what the Ethernet header of the frame rec says: EtherType and source
Header(rec) == [ethertype |-> rec.ethertype, source |-> rec.source]

\* a replay loop that uses try_send: a frame read while the analyzer is busy
\* is dropped
ReadRecordLossy(rec) ==
    IF rec.ethertype # 34980 \/ pc # "recv"
    THEN /\ source' = [source EXCEPT !.left = @ - 1,
                          !.seen = Append(@, Header(rec)),
                          !.read = @ + (IF rec.ethertype = 34980 THEN 1 ELSE 0)]
         /\ UNCHANGED rx_recycle
    ELSE Acquire([source EXCEPT !.left = @ - 1, !.read = @ + 1,
                                !.seen = Append(@, Header(rec)),
                                !.initial_frame = FALSE,
                                !.src_mac = IF source.initial_frame
                                            THEN rec.source ELSE @],
                 [timestamp |-> source.read + 1,
                  from_main |-> (IF source.initial_frame THEN TRUE
                                 ELSE rec.source = source.src_mac),
                  data |-> rec.payload])

\* a replay loop that takes the main address from the first frame of the
\* file, whatever its EtherType
ReadRecordAnyFirst(rec) ==
    IF rec.ethertype # 34980
    THEN /\ source' = [source EXCEPT !.left = @ - 1,
                                      !.seen = Append(@, Header(rec)),
                                      !.initial_frame = FALSE,
                                      !.src_mac = IF source.initial_frame
                                                  THEN rec.source ELSE @]
         /\ UNCHANGED rx_recycle
    ELSE Acquire([source EXCEPT !.left = @ - 1, !.read = @ + 1,
                                !.seen = Append(@, Header(rec)),
                                !.initial_frame = FALSE,
                                !.src_mac = IF source.initial_frame
                                            THEN rec.source ELSE @],
                 [timestamp |-> source.read + 1,
                  from_main |-> (IF source.initial_frame THEN TRUE
                                 ELSE rec.source = source.src_mac),
                  data |-> rec.payload])

\* one pass of the replay loop over the record rec
ReadRecord(rec) ==
    IF rec.ethertype # 34980
    THEN /\ source' = [source EXCEPT !.left = @ - 1,
                                      !.seen = Append(@, Header(rec))]
         /\ UNCHANGED rx_recycle
    ELSE Acquire([source EXCEPT !.left = @ - 1, !.read = @ + 1,
                                !.seen = Append(@, Header(rec)),
                                !.initial_frame = FALSE,
                                !.src_mac = IF source.initial_frame
                                            THEN rec.source ELSE @],
                 [timestamp |-> source.read + 1,
                  from_main |-> (IF source.initial_frame THEN TRUE
                                 ELSE rec.source = source.src_mac),
                  data |-> rec.payload])

\* the reader thread of start_read_pcap: the loop condition and the body up
\* to tx_data.send; at the end of the file the thread ends and its channel
\* ends are dropped
SrcReadFile ==
    /\ mode = "file"
    /\ source.pc = "read"
    /\ IF ~running \/ source.left = 0
       THEN /\ source' = [source EXCEPT !.pc = "done"]
            /\ rx_recycle' = 0
       ELSE \E rec \in FileRecords : ReadRecord(rec)
    /\ UNCHANGED <<mode, running, rx_data, writer, ctrlc, delivered, analyzed>>
    /\ UNCHANGED analyzer_vars

\* a frame came off the wire in a live capture: with an output file it goes
\* to the writer first, otherwise into a capture buffer
Captured(src, msg) ==
    IF writer.pc = "none"
    THEN Acquire(src, msg)
    ELSE /\ source' = [src EXCEPT !.pc = "wsend", !.hand = Some(msg)]
         /\ UNCHANGED rx_recycle

\* the capture thread of start_packet_receive: the loop condition,
\* datalink_rx.next(), which times out after 100 ms or returns the next frame
\* on the wire, and the body up to the first send
SrcPoll ==
    /\ mode = "live"
    /\ source.pc = "read"
    /\ IF ~running
       THEN /\ source' = [source EXCEPT !.pc = "done"]
            /\ rx_recycle' = 0
       ELSE \/ UNCHANGED <<source, rx_recycle>>
            \/ /\ source.left > 0
               /\ \E rec \in WireRecords :
                    Captured([source EXCEPT !.left = @ - 1, !.read = @ + 1,
                                            !.seen = Append(@, Header(rec))],
                             [timestamp |-> source.read + 1,
                              from_main |-> FALSE,
                              data |-> rec.payload])
    /\ UNCHANGED <<mode, running, rx_data, writer, ctrlc, delivered, analyzed>>
    /\ UNCHANGED analyzer_vars

\* tx_data_writer.send(..).ok(): blocks while the writer's channel is full,
\* fails at once when the writer has gone; then the capture buffer
SrcWriterSend ==
    /\ source.pc = "wsend"
    /\ writer.pc = "done" \/ writer.queue < WriterDepth
    /\ writer' = IF writer.pc = "done" THEN writer
                 ELSE [writer EXCEPT !.queue = @ + 1]
    /\ Acquire(source, Unwrap(source.hand))
    /\ UNCHANGED <<mode, running, rx_data, ctrlc, delivered, analyzed>>
    /\ UNCHANGED analyzer_vars

\* tx_data.send(CapturedData) on a channel with room: it blocks while the
\* channel is full, and fails, which ends the thread, when main has dropped
\* rx_data.  On the rendezvous channel of a replay the send completes in
\* MainRecv.
SrcSend ==
    /\ source.pc = "send"
    /\ \/ /\ ~RxOpen
          /\ source' = [source EXCEPT !.pc = "done", !.hand = None]
          /\ rx_recycle' = 0
          /\ UNCHANGED rx_data
       \/ /\ RxOpen
          /\ Len(rx_data) < Depth
          /\ rx_data' = Append(rx_data, Unwrap(source.hand))
          /\ source' = [source EXCEPT !.pc = "read", !.hand = None]
          /\ UNCHANGED rx_recycle
    /\ UNCHANGED <<mode, running, writer, ctrlc, delivered, analyzed>>
    /\ UNCHANGED analyzer_vars

\* a channel that hands out the newest message first
ReceivedNewest(queue) ==
    [msg |-> queue[Len(queue)], rest |-> SubSeq(queue, 1, Len(queue) - 1)]

\* recv on a channel that holds messages: the oldest one
Received(queue) == [msg |-> Head(queue), rest |-> Tail(queue)]

\* the message msg has been received: ECFrame::new decides whether the
\* iteration goes on
Delivered(msg) ==
    /\ Decoded(msg.from_main, ECFrameNew(msg.data))
    /\ delivered' = Append(delivered, msg)

\* the loop is in its select and a CapturedData is there to receive
CanRecv ==
    /\ pc = "recv"
    /\ rx_data # <<>> \/ (Depth = 0 /\ source.pc = "send")

\* recv(rx_data) -> Ok(CapturedData): from the channel, or, on a rendezvous
\* channel, from the source thread blocked in its send
MainRecv ==
    /\ CanRecv
    /\ \/ /\ rx_data # <<>>
          /\ Delivered(Received(rx_data).msg)
          /\ rx_data' = Received(rx_data).rest
          /\ UNCHANGED source
       \/ /\ rx_data = <<>> /\ Depth = 0 /\ source.pc = "send"
          /\ Delivered(Unwrap(source.hand))
          /\ source' = [source EXCEPT !.pc = "read", !.hand = None]
          /\ UNCHANGED rx_data
    /\ UNCHANGED <<uninitialized, num_frames, expected_wkc, devices,
                   config_address_map, result, log>>
    /\ UNCHANGED <<mode, running, rx_recycle, writer, ctrlc, analyzed>>

\* abort_rx.try_recv() or recv(abort_rx): the handler's send completes, the
\* loop breaks, and rx_data and tx_buffer are dropped
MainAbort ==
    /\ pc = "recv"
    /\ ctrlc = "send_main"
    /\ ctrlc' = "done"
    /\ pc' = "join"
    /\ rx_data' = <<>>
    /\ UNCHANGED <<uninitialized, num_frames, expected_wkc, devices,
                   config_address_map, packet, result, log>>
    /\ UNCHANGED <<mode, running, source, rx_recycle, writer, delivered,
                   analyzed>>

\* recv(rx_data) -> Err: the channel is empty and the source thread has gone
MainClosed ==
    /\ pc = "recv"
    /\ rx_data = <<>>
    /\ source.pc = "done"
    /\ pc' = "join"
    /\ UNCHANGED <<uninitialized, num_frames, expected_wkc, devices,
                   config_address_map, packet, result, log>>
    /\ UNCHANGED pipe_vars

\* tx_buffer.send(BytesMut::from(packet)).ok() and report_errors: the buffer
\* goes to the recycle channel, or is freed when the source thread has gone
PipeReport ==
    /\ pc = "report"
    /\ pc' = "recv"
    /\ packet' = None
    /\ result' = None
    /\ log' = <<>>
    /\ rx_recycle' = IF source.pc = "done" THEN rx_recycle ELSE rx_recycle + 1
    /\ analyzed' = Append(analyzed, delivered[Len(delivered)].timestamp)
    /\ UNCHANGED <<uninitialized, num_frames, expected_wkc, devices,
                   config_address_map>>
    /\ UNCHANGED <<mode, running, source, rx_data, writer, ctrlc, delivered>>

\* handle.join() returns once the source thread has ended
MainJoin ==
    /\ pc = "join"
    /\ source.pc = "done"
    /\ pc' = "done"
    /\ UNCHANGED <<uninitialized, num_frames, expected_wkc, devices,
                   config_address_map, packet, result, log>>
    /\ UNCHANGED pipe_vars

\* the writer thread: recv(abort_rx) completes the handler's first send
WriterAbort ==
    /\ writer.pc = "select"
    /\ ctrlc = "send_writer"
    /\ writer' = [pc |-> "done", queue |-> 0]
    /\ ctrlc' = "send_main"
    /\ UNCHANGED <<mode, running, source, rx_data, rx_recycle, delivered,
                   analyzed>>
    /\ UNCHANGED analyzer_vars

\* the writer thread: recv(rx_data_writer) -> Ok, write_packet, and the buffer
\* goes back through tx_cycle_writer, which fails when the source has gone;
\* recv(rx_data_writer) -> Err when the channel is empty and the source has
\* gone
WriterRecv ==
    /\ writer.pc = "select"
    /\ IF writer.queue > 0
       THEN writer' = IF source.pc = "done" THEN [pc |-> "done", queue |-> 0]
                      ELSE [writer EXCEPT !.queue = @ - 1]
       ELSE /\ source.pc = "done"
            /\ writer' = [pc |-> "done", queue |-> 0]
    /\ UNCHANGED <<mode, running, source, rx_data, rx_recycle, ctrlc,
                   delivered, analyzed>>
    /\ UNCHANGED analyzer_vars

\* SIGINT: the handler runs and calls abort_tx2.send(true)
Sigint ==
    /\ ctrlc = "idle"
    /\ pc # "done"
    /\ ctrlc' = "send_writer"
    /\ UNCHANGED <<mode, running, source, rx_data, rx_recycle, writer,
                   delivered, analyzed>>
    /\ UNCHANGED analyzer_vars

\* abort_tx2.send(true).ok() fails at once when no thread holds the receiver;
\* the handler goes on to abort_tx.send(true)
HandlerSendDropped ==
    /\ ctrlc = "send_writer"
    /\ writer.pc # "select"
    /\ ctrlc' = "send_main"
    /\ UNCHANGED <<mode, running, source, rx_data, rx_recycle, writer,
                   delivered, analyzed>>
    /\ UNCHANGED analyzer_vars

NextPipe ==
    \/ SrcReadFile \/ SrcPoll \/ SrcWriterSend \/ SrcSend
    \/ MainRecv \/ MainAbort \/ MainClosed \/ AnalyzePacket \/ PipeReport
    \/ MainJoin
    \/ WriterAbort \/ WriterRecv
    \/ Sigint \/ HandlerSendDropped

SpecPipe == InitPipe /\ [][NextPipe]_vars

\* every thread that can take a step of its own eventually takes it; the
\* arrival of frames and of SIGINT is up to the environment.  MainRecv is
\* enabled exactly while CanRecv holds and AnalyzePacket exactly while
\* pc = "analyze", and a capture has finitely many frames, so their weak
\* fairness is stated on these guards.
SpecPipeFair ==
    /\ InitPipe
    /\ [][NextPipe]_vars
    /\ WF_vars(SrcReadFile) /\ WF_vars(SrcWriterSend) /\ WF_vars(SrcSend)
    /\ []<>(~CanRecv) /\ []<>(pc # "analyze")
    /\ WF_vars(MainAbort) /\ WF_vars(MainClosed)
    /\ WF_vars(PipeReport) /\ WF_vars(MainJoin)
    /\ WF_vars(WriterAbort) /\ WF_vars(WriterRecv)
    /\ WF_vars(HandlerSendDropped)

-----------------------------------------------------------------------------
(* Properties.  The log holds one entry per datagram dispatched while the  *)
(* last frame was analyzed: the datagram, the manager before and after,    *)
(* the Result, and the state-machine steps that ran.                       *)

\* a frame of one datagram
Frame(from_main, dg) ==
    [from_main |-> from_main, protocol_type |-> 1,
     parsed |-> [ok |-> TRUE, datagrams |-> <<dg>>]]

Entries == {log[i] : i \in 1..Len(log)}

Steps == UNION {{e.steps[j] : j \in 1..Len(e.steps)} : e \in Entries}

IsInboundBrd(e) == e.dg.command = BRD /\ ~e.from_main

\* the offsets a datagram's payload covers
Covered(dg) == {(dg.ado + (i - 1)) % U16 : i \in 1..Len(dg.data)}

\* the byte a datagram carries for offset a
ByteAt(dg, a) == dg.data[CHOOSE i \in 1..Len(dg.data) : (dg.ado + (i - 1)) % U16 = a]

\* C1: while the manager is uninitialized the roster and the address map are
\* empty, and every datagram other than an inbound BRD is ignored: the manager
\* is left as it was, no step runs, and the Result is Ok.
C1_UninitializedIgnores ==
    /\ uninitialized => devices = <<>> /\ config_address_map = EmptyMap
    /\ \A e \in Entries :
        e.before.uninitialized /\ ~IsInboundBrd(e) =>
            /\ e.after = e.before
            /\ e.res = OkR
            /\ e.steps = <<>>
    /\ (pc = "report" /\ uninitialized /\ Unwrap(packet).protocol_type = 1
            /\ Unwrap(packet).parsed.ok) => result = Some(OkR)

\* the second frame, an inbound APRD with a working counter of 0, has been
\* analyzed and the manager is still uninitialized
C1_Witness ==
    /\ pc = "report"
    /\ uninitialized
    /\ num_frames = 2
    /\ \E e \in Entries : e.dg.command = APRD /\ ~e.from_main /\ e.dg.wkc = 0

\* the entry of the BRD that initializes the manager
IsInitializingBrd(e) == IsInboundBrd(e) /\ e.before.uninitialized

\* C2 as stated: after the first inbound BRD with WKC = n the roster holds n
\* SubDevices, each in Init with no configured address, whatever the BRD
\* carries, and the BRD is not reported as InvalidWkc.
C2_Original ==
    \A e \in Entries :
        IsInitializingBrd(e) =>
            /\ Len(e.after.devices) = e.dg.wkc
            /\ \A i \in 1..Len(e.after.devices) :
                /\ e.after.devices[i].state = Init_
                /\ e.after.devices[i].configured_address = None
            /\ e.res.kind # "InvalidWkc"

\* the state the initializing BRD leaves a device in: the state its payload
\* reports in AlStatus, and Init if it carries no decodable AlStatus
StateAfterInit(dg) ==
    IF AlStatus \in Covered(dg) /\ DecodeState(ByteAt(dg, AlStatus)).ok
    THEN DecodeState(ByteAt(dg, AlStatus)).v
    ELSE Init_

\* C2 amended: after the first inbound BRD with WKC = n the roster holds n
\* SubDevices with no configured address, each in the state the BRD's AlStatus
\* byte decodes to, or in Init if the BRD carries no decodable AlStatus; the
\* BRD's Result is Ok.
C2_InitialRoster ==
    \A e \in Entries :
        IsInitializingBrd(e) =>
            /\ ~e.after.uninitialized
            /\ Len(e.after.devices) = e.dg.wkc
            /\ \A i \in 1..Len(e.after.devices) :
                /\ e.after.devices[i].state = StateAfterInit(e.dg)
                /\ e.after.devices[i].configured_address = None
            /\ e.res = OkR

\* the initializing BRD carried WKC = 2 and AlStatus = PreOp
C2_Witness ==
    \E e \in Entries :
        /\ IsInitializingBrd(e)
        /\ e.dg.wkc = 2
        /\ e.dg.ado = AlStatus /\ e.dg.data = <<2>>
        /\ Len(devices) = 2
        /\ devices[1].state = PreOp /\ devices[2].state = PreOp

\* the working counter the spec's table expects of an inbound datagram
TableExpectedWkc(e) ==
    IF e.dg.command \in {BRD, BWR, BRW} THEN Len(e.after.devices) ELSE 1

\* C3 as stated: after initialization every inbound BRD, BWR, BRW whose WKC
\* differs from devices.len(), and every inbound APRD, APWR, FPRD, FPWR, ARMW,
\* FRMW whose WKC differs from 1, produces InvalidWkc with that expected value.
C3_Original ==
    \A e \in Entries :
        (/\ ~e.after.uninitialized
         /\ ~e.from_main
         /\ e.dg.command \in {BRD, BWR, BRW, APRD, APWR, FPRD, FPWR, ARMW, FRMW}
         /\ e.dg.wkc # TableExpectedWkc(e))
        => /\ e.res.kind = "InvalidWkc"
           /\ e.res.expected = TableExpectedWkc(e)

\* the fields the state-machine stepper writes
EsmFields(sd) ==
    <<sd.state, sd.al_control, sd.al_status, sd.al_status_code, sd.has_esm_error>>

\* the working counter check_wkc expects of an inbound datagram
CodeExpectedWkc(e) ==
    IF e.dg.command = BRD THEN Len(e.after.devices) ELSE 1

\* an inbound BRD, APRD or FPRD handed to process_common after
\* initialization with a WKC that differs from the expected one
FailsWkc(e) ==
    /\ ~e.after.uninitialized
    /\ ~e.from_main
    /\ e.dg.command \in {BRD, APRD, FPRD}
    /\ e.dg.wkc # CodeExpectedWkc(e)

\* C4: an inbound BRD, APRD or FPRD whose WKC differs from the expected value
\* yields InvalidWkc with packet_number = num_frames, the datagram's command,
\* from_main = false, expected and actual; no state-machine step runs and no
\* device's state, al_control, al_status, al_status_code or has_esm_error
\* changes.
C4_InvalidWkcSkipsStep ==
    \A e \in Entries :
        FailsWkc(e) =>
            /\ e.res = [kind |-> "InvalidWkc",
                        packet_number |-> num_frames,
                        command |-> e.dg.command,
                        from_main |-> FALSE,
                        expected |-> CodeExpectedWkc(e),
                        actual |-> e.dg.wkc]
            /\ result = Some(e.res)
            /\ e.steps = <<>>
            /\ Len(e.after.devices) = Len(e.before.devices)
            /\ \A i \in 1..Len(e.after.devices) :
                EsmFields(e.after.devices[i]) = EsmFields(e.before.devices[i])

\* an inbound BRD of AlStatus = PreOp came back with WKC = 1 from a roster of
\* two devices in Init
C4_Witness ==
    \E e \in Entries :
        /\ FailsWkc(e)
        /\ e.dg.command = BRD /\ e.dg.wkc = 1
        /\ e.dg.ado = AlStatus /\ e.dg.data = <<2>>
        /\ Len(e.before.devices) = 2
        /\ e.before.devices[1].state = Init_
        /\ e.res.kind = "InvalidWkc"

\* the device an inbound APRD or FPRD addresses, as a set of roster indices
Target(e) ==
    IF e.dg.command = APRD
    THEN {i \in 1..Len(e.before.devices) : i - 1 = Len(e.before.devices) - e.dg.adp}
    ELSE {i \in 1..Len(e.before.devices) :
            /\ e.dg.adp \in DOMAIN e.before.config_address_map
            /\ e.before.config_address_map[e.dg.adp] = i - 1}

\* register file `file` of device sd holds the datagram's payload
HoldsPayload(sd, file, dg) ==
    ReadRegImpl(sd[file], dg.ado, Len(dg.data)) = [i \in 1..Len(dg.data) |-> Some(dg.data[i])]

\* C5 as stated: when an inbound datagram fails its WKC check its payload is
\* still written: to register_brd of every device for BRD, to register_rd of
\* the target for APRD and FPRD.
C5_Original ==
    \A e \in Entries :
        FailsWkc(e) =>
            IF e.dg.command = BRD
            THEN \A i \in 1..Len(e.after.devices) :
                    HoldsPayload(e.after.devices[i], "register_brd", e.dg)
            ELSE \A i \in Target(e) :
                    HoldsPayload(e.after.devices[i], "register_rd", e.dg)

\* C6 as stated: an error in one datagram affects only that datagram, the
\* remaining datagrams of the frame are still dispatched: every datagram of a
\* decoded frame has been dispatched when the analysis of the frame ends.
C6_Original ==
    (pc = "report" /\ Unwrap(packet).protocol_type = 1 /\ Unwrap(packet).parsed.ok)
        => Len(log) = Len(Unwrap(packet).parsed.datagrams)

\* a step that reaches change_state with an AL Status whose state decoded
HasNewState(st) ==
    IsSome(st.at_change.al_status) /\ Unwrap(st.at_change.al_status).state.ok

NewState(st) == Unwrap(st.at_change.al_status).state.v

StatusError(st) == Unwrap(st.at_change.al_status).error

OldState(st) == st.at_change.state

\* a step whose AL Control decoded to a state other than the current one
HasRequest(st) ==
    /\ IsSome(st.at_change.al_control)
    /\ Unwrap(st.at_change.al_control).state.ok
    /\ Unwrap(st.at_change.al_control).state.v # OldState(st)

Requested(st) == Unwrap(st.at_change.al_control).state.v

\* C7: after every state-machine step in which al_status is present and its
\* state nibble decodes to s, the device's state is s, whatever the step
\* returns.
C7_StateFollowsStatus ==
    \A st \in Steps : HasNewState(st) => st.after.state = NewState(st)

\* a step returned InvalidStateTransition and the device moved up to Op
C7_Witness ==
    \E st \in Steps :
        /\ HasNewState(st)
        /\ st.res.kind = "InvalidStateTransition"
        /\ OldState(st) = PreOp
        /\ st.after.state = Op

\* the outcome C8 gives for a step with a request
C8_Outcome(old, req, new, error) ==
    IF new > req
    THEN [kind |-> "InvalidStateTransition", requested |-> req, current |-> new]
    ELSE IF new < old
    THEN [kind |-> "BackwardTransition", from |-> old, to |-> new,
          has_error |-> error]
    ELSE IF new < req
    THEN [kind |-> "TransitionFailed", requested |-> req, current |-> new,
          has_error |-> error]
    ELSE OkR

\* C8: with a decodable status state new and a decodable AL Control state req
\* other than the current state old, the state becomes new and the step
\* returns InvalidStateTransition if new > req, else BackwardTransition if
\* new < old, else TransitionFailed if new < req, else Ok, and then new = req
\* and new > old.
C8_RequestedOutcome ==
    \A st \in Steps :
        HasNewState(st) /\ HasRequest(st) =>
            /\ st.after.state = NewState(st)
            /\ st.res = C8_Outcome(OldState(st), Requested(st), NewState(st),
                                   StatusError(st))
            /\ st.res = OkR =>
                /\ NewState(st) = Requested(st)
                /\ NewState(st) > OldState(st)

\* a device in Op asked for Init reported PreOp: above the request and below
\* the old state, and the step returned InvalidStateTransition
C8_Witness ==
    \E st \in Steps :
        /\ HasNewState(st) /\ HasRequest(st)
        /\ OldState(st) = Op /\ Requested(st) = Init_ /\ NewState(st) = PreOp
        /\ st.res.kind = "InvalidStateTransition"

\* the AL Status Code register_rd holds
StatusCodeIn(sd) ==
    IF AlStatusCode \in DOMAIN sd.register_rd
       /\ (AlStatusCode + 1) \in DOMAIN sd.register_rd
    THEN Some(sd.register_rd[AlStatusCode] + 256 * sd.register_rd[AlStatusCode + 1])
    ELSE None

\* C9: with a decodable status state new, an AL Control that has been
\* observed and no pending request, the state becomes new and the step
\* returns BackwardTransition{from: old, to: new} with has_esm_error set and
\* al_status_code reloaded if new < old, InvalidStateTransition{requested:
\* old, current: new} if new > old, and Ok if new = old.
C9_NoRequestOutcome ==
    \A st \in Steps :
        (HasNewState(st) /\ IsSome(st.at_change.al_control) /\ ~HasRequest(st)) =>
            /\ st.after.state = NewState(st)
            /\ NewState(st) < OldState(st) =>
                /\ st.res = [kind |-> "BackwardTransition",
                             from |-> OldState(st), to |-> NewState(st),
                             has_error |-> StatusError(st)]
                /\ st.after.has_esm_error
                /\ st.after.al_status_code = StatusCodeIn(st.after)
            /\ NewState(st) > OldState(st) =>
                st.res = [kind |-> "InvalidStateTransition",
                          requested |-> OldState(st), current |-> NewState(st)]
            /\ NewState(st) = OldState(st) => st.res = OkR

\* a device in Op whose AL Control holds no state reported PreOp, and the
\* step loaded AL Status Code 0x0001
C9_Witness ==
    \E st \in Steps :
        /\ HasNewState(st) /\ IsSome(st.at_change.al_control)
        /\ ~Unwrap(st.at_change.al_control).state.ok
        /\ OldState(st) = Op /\ NewState(st) = PreOp
        /\ st.res.kind = "BackwardTransition"
        /\ st.before.al_status_code = None
        /\ st.after.al_status_code = Some(1)

\* C10 as stated: IllegalTransition is returned only when no AL Control has
\* been observed and the reported state differs from the current one; a step
\* that reports the state the device is in, before any AL Control write,
\* returns Ok.
C10_Original ==
    \A st \in Steps :
        /\ st.res.kind = "IllegalTransition" =>
            /\ ~IsSome(st.at_change.al_control)
            /\ st.res.to # OldState(st)
        /\ (HasNewState(st) /\ ~IsSome(st.at_change.al_control)
                /\ NewState(st) = OldState(st)) => st.res = OkR

\* a step whose AL Control decoded to a state
HasControlState(st) ==
    IsSome(st.at_change.al_control) /\ Unwrap(st.at_change.al_control).state.ok

\* the steps that ran while a frame was analyzed; r is what analyze_packet
\* returned
StepsOf(r) ==
    UNION {{r.log[k].steps[j] : j \in 1..Len(r.log[k].steps)} : k \in 1..Len(r.log)}

\* the step found the AL Control request written by the main device at or
\* below the state the device reports
RequestAtMostStatus(st) ==
    (HasNewState(st) /\ HasControlState(st)) =>
        Unwrap(st.at_change.al_control).state.v <= NewState(st)

\* the step did not return BackwardTransition and left has_esm_error false
NoBackwardTransition(st) ==
    st.res.kind # "BackwardTransition" /\ ~st.after.has_esm_error

\* analyze_packet applied to the frames of a capture in turn: the sequence of
\* what it returned
RECURSIVE Replay(_, _)
RECURSIVE ReplayFrom(_, _)
Replay(dm, frames) ==
    IF frames = <<>> THEN <<>>
    ELSE ReplayFrom(AnalyzePacketOn(dm, Head(frames)), Tail(frames))

ReplayFrom(r, frames) == <<r>> \o Replay(r.dm, frames)

\* a capture of one device: it reports SafeOp, the main device requests Init,
\* the device reports Init
DownwardCapture ==
    <<Frame(FALSE, Datagram(BRD, 0, [ado |-> AlStatus, data |-> <<4>>], 1)),
      Frame(TRUE, Datagram(BWR, 0, [ado |-> AlControl, data |-> <<1>>], 0)),
      Frame(FALSE, Datagram(BRD, 0, [ado |-> AlStatus, data |-> <<1>>], 1))>>

\* C11 of the analyses rs of a capture
MonotoneUnderCleanRequests(rs) ==
    (\A k \in 1..Len(rs) : \A st \in StepsOf(rs[k]) : RequestAtMostStatus(st))
    => (\A k \in 1..Len(rs) : \A st \in StepsOf(rs[k]) : NoBackwardTransition(st))

\* C11 as stated: in a capture in which every AL Control request is at or
\* below the AL Status state the device then reports, no step ever returns
\* BackwardTransition and has_esm_error stays false on every device.  Stated
\* of the capture DownwardCapture analyzed by a new manager, in the state its
\* last frame leaves.
C11_Original ==
    (/\ pc = "report"
     /\ packet = Some(DownwardCapture[3])
     /\ DM = Replay(DeviceManagerNew, DownwardCapture)[3].dm)
    => MonotoneUnderCleanRequests(Replay(DeviceManagerNew, DownwardCapture))

\* no device loses has_esm_error, and none leaves the roster, in a step of the
\* analyzer
FlagStaysSet ==
    \A i \in 1..Len(devices) :
        devices[i].has_esm_error =>
            i <= Len(devices') /\ devices'[i].has_esm_error

\* C12 as stated: after any state-machine step that lowers a device's state
\* has_esm_error is true, and once true it stays true for the rest of the
\* capture.
C12_Original ==
    /\ [](\A st \in Steps :
            st.after.state < st.before.state => st.after.has_esm_error)
    /\ [][FlagStaysSet]_vars

\* C12 amended: has_esm_error is set by exactly the steps that return
\* BackwardTransition: after such a step it is true, no other step changes
\* it, and once true it stays true for the rest of the capture.
C12_StickyFlag ==
    /\ [](\A st \in Steps :
            /\ st.res.kind = "BackwardTransition" => st.after.has_esm_error
            /\ st.res.kind # "BackwardTransition" =>
                st.after.has_esm_error = st.before.has_esm_error)
    /\ [][FlagStaysSet]_vars

\* a device with has_esm_error set has moved up to the requested state in a
\* step that returned Ok, and the flag is still set
C12_Witness ==
    \E st \in Steps :
        /\ st.before.has_esm_error
        /\ st.res = OkR
        /\ st.after.state > st.before.state
        /\ st.after.has_esm_error
        /\ devices[st.dev + 1].has_esm_error

\* C13 as stated: a step whose AL Status has error = false never changes
\* al_status_code.
C13_Original ==
    \A st \in Steps :
        (IsSome(st.at_change.al_status) /\ ~StatusError(st)) =>
            st.after.al_status_code = st.before.al_status_code

\* an APWR or APRD processed after initialization whose position field
\* addresses a device of the roster
AddressesDevice(e) ==
    /\ ~e.before.uninitialized
    /\ SubdeviceIndex(e.before, e.dg, e.from_main) < Len(e.before.devices)

\* the roster index (from 1) of that device
Addressed(e) == SubdeviceIndex(e.before, e.dg, e.from_main) + 1

\* register file `file` is the same in every device before and after
FileUntouched(e, file) ==
    /\ Len(e.after.devices) = Len(e.before.devices)
    /\ \A i \in 1..Len(e.after.devices) :
        e.after.devices[i][file] = e.before.devices[i][file]

\* C14 as stated: after any APWR, outbound or inbound, that addresses a device
\* of the roster, register_wr of that device holds the payload and no
\* register_rd or register_brd is modified.
C14_Original ==
    \A e \in Entries :
        (e.dg.command = APWR /\ AddressesDevice(e)) =>
            /\ HoldsPayload(e.after.devices[Addressed(e)], "register_wr", e.dg)
            /\ FileUntouched(e, "register_rd")
            /\ FileUntouched(e, "register_brd")

RegisterFiles == {"register_wr", "register_rd", "register_brd"}

\* register file `file` of device i before the datagram; a device the
\* datagram created had empty files
FileBefore(e, i, file) ==
    IF i <= Len(e.before.devices) THEN e.before.devices[i][file] ELSE EmptyMap

\* register file `file` of device i holds the payload at offsets
\* reg_off + k mod 2^16 and, elsewhere, what it held before
PayloadWritten(e, i, file) ==
    LET after == e.after.devices[i][file]
        before == FileBefore(e, i, file)
    IN  /\ DOMAIN after = (DOMAIN before) \cup Covered(e.dg)
        /\ \A a \in DOMAIN after :
            after[a] = IF a \in Covered(e.dg) THEN ByteAt(e.dg, a) ELSE before[a]

\* the station address of an FPRD or FPWR is in config_address_map
IsMapped(e) == e.dg.adp \in DOMAIN e.before.config_address_map

\* the <<device, file>> pairs C15 says the datagram writes
WrittenFiles(e) ==
    CASE e.dg.command = BWR /\ e.from_main ->
            {<<i, "register_wr">> : i \in 1..Len(e.before.devices)}
      [] e.dg.command = FPWR /\ e.from_main /\ IsMapped(e) ->
            {<<e.before.config_address_map[e.dg.adp] + 1, "register_wr">>}
      [] e.dg.command = APRD /\ ~e.from_main /\ e.dg.wkc = 1 /\ AddressesDevice(e) ->
            {<<Addressed(e), "register_rd">>}
      [] e.dg.command = FPRD /\ ~e.from_main /\ e.dg.wkc = 1
            /\ ~e.before.uninitialized /\ IsMapped(e) ->
            {<<e.before.config_address_map[e.dg.adp] + 1, "register_rd">>}
      [] e.dg.command = BRD /\ ~e.from_main /\ e.dg.wkc = Len(e.after.devices) ->
            {<<i, "register_brd">> : i \in 1..Len(e.after.devices)}
      [] OTHER -> {}

\* the datagrams C15 speaks of: the handled reads and the broadcast and
\* station writes on their way out, the writes on their way back, and the
\* reads on their way back with the working counter check_wkc expects
InRegisterTable(e) ==
    \/ e.from_main /\ e.dg.command \in {BRD, BWR, APRD, FPRD, FPWR}
    \/ ~e.from_main /\ e.dg.command \in {BWR, FPWR}
    \/ ~e.from_main /\ e.dg.command \in {APRD, FPRD} /\ e.dg.wkc = 1
    \/ ~e.from_main /\ e.dg.command = BRD /\ e.dg.wkc = Len(e.after.devices)

\* C15: an outbound BWR writes the payload to register_wr of every device, an
\* outbound FPWR to register_wr of the mapped device; an inbound APRD or FPRD
\* with a valid WKC writes it only to register_rd of the addressed device, an
\* inbound BRD with a valid WKC only to register_brd of every device; the
\* outbound reads and the inbound writes change no register file.  Bytes land
\* at offsets reg_off + i with 16-bit wrap-around.
C15_RegisterWrites ==
    \A e \in Entries :
        InRegisterTable(e) =>
            /\ Len(e.after.devices) >= Len(e.before.devices)
            /\ \A i \in 1..Len(e.after.devices), file \in RegisterFiles :
                IF <<i, file>> \in WrittenFiles(e)
                THEN PayloadWritten(e, i, file)
                ELSE e.after.devices[i][file] = FileBefore(e, i, file)

\* an inbound FPRD wrote a payload that wraps from 0xFFFF to 0x0000 to
\* register_rd of the second of two devices, and to no other file
C15_Witness ==
    \E e \in Entries :
        /\ e.dg.command = FPRD /\ ~e.from_main
        /\ e.dg.ado = 65535 /\ e.dg.data = <<7, 9>>
        /\ Len(devices) = 2
        /\ WrittenFiles(e) = {<<2, "register_rd">>}
        /\ 65535 \notin DOMAIN e.before.devices[2].register_rd
        /\ devices[2].register_rd[65535] = 7
        /\ devices[2].register_rd[0] = 9
        /\ devices[1].register_rd = EmptyMap

\* the bus index C16 gives: (0 - p) mod 2^16 on the way out, devices.len() - p
\* on the way back
PositionIndex(e) ==
    IF e.from_main THEN (65536 - e.dg.adp) % 65536
    ELSE Len(e.before.devices) - e.dg.adp

PositionInRange(e) == PositionIndex(e) \in 0..(Len(e.before.devices) - 1)

IsPositionCommand(e) == e.dg.command \in {APRD, APWR}

\* C16 as stated: whenever the index of an APRD or APWR is not below
\* devices.len() the result is InvalidAutoIncrementAddress(p) and no device is
\* modified.
C16_Original ==
    \A e \in Entries :
        (IsPositionCommand(e) /\ ~PositionInRange(e)) =>
            /\ e.res = [kind |-> "InvalidAutoIncrementAddress", addr |-> e.dg.adp]
            /\ e.after.devices = e.before.devices

\* an APRD or APWR that process_common hands to process: the manager is
\* initialized and, on the way back, the working counter is 1
ReachesProcess(e) ==
    /\ ~e.before.uninitialized
    /\ e.from_main \/ e.dg.wkc = 1

\* C16 amended: for an APRD or APWR that passes the initialization and WKC
\* checks, the index is (0 - p) mod 2^16 outbound and devices.len() - p
\* inbound; if it is not below devices.len() the result is
\* InvalidAutoIncrementAddress(p) and no device and no map entry is modified;
\* if it is, the result is Ok, no other device is modified, and the inbound
\* payload is in the addressed device.
C16_AutoIncrementIndex ==
    \A e \in Entries :
        (IsPositionCommand(e) /\ ReachesProcess(e)) =>
            IF PositionInRange(e)
            THEN /\ e.res = OkR
                 /\ Len(e.after.devices) = Len(e.before.devices)
                 /\ \A i \in 1..Len(e.after.devices) :
                        i # PositionIndex(e) + 1 =>
                            e.after.devices[i] = e.before.devices[i]
                 /\ ~e.from_main =>
                        HoldsPayload(e.after.devices[PositionIndex(e) + 1],
                            IF e.dg.command = APRD THEN "register_rd"
                            ELSE "register_wr", e.dg)
            ELSE /\ e.res = [kind |-> "InvalidAutoIncrementAddress",
                             addr |-> e.dg.adp]
                 /\ e.after.devices = e.before.devices
                 /\ e.after.config_address_map = e.before.config_address_map

\* an inbound APRD with position 0 and WKC 1 came back from a roster of two
\* devices and was answered InvalidAutoIncrementAddress(0)
C16_Witness ==
    \E e \in Entries :
        /\ e.dg.command = APRD /\ ~e.from_main
        /\ e.dg.adp = 0 /\ e.dg.wkc = 1
        /\ Len(e.before.devices) = 2
        /\ e.res = [kind |-> "InvalidAutoIncrementAddress", addr |-> 0]
        /\ devices = e.before.devices

\* C17 as stated: every FPRD or FPWR, in either direction, that is processed
\* after initialization with a station address that is not in
\* config_address_map is answered InvalidConfiguredAddress(address), and no
\* device is modified.
C17_Original ==
    \A e \in Entries :
        (/\ e.dg.command \in {FPRD, FPWR}
         /\ ReachesProcess(e)
         /\ ~IsMapped(e))
        => /\ e.res = [kind |-> "InvalidConfiguredAddress", addr |-> e.dg.adp]
           /\ e.after.devices = e.before.devices

\* the frames of scenario S3: the outbound APWR and the inbound APRD of the
\* configured station address 0x1234, both with position 0
S3Apwr ==
    Frame(TRUE, Datagram(APWR, 0,
        [ado |-> ConfiguredStationAddress, data |-> <<52, 18>>], 0))

S3Aprd ==
    Frame(FALSE, Datagram(APRD, 0,
        [ado |-> ConfiguredStationAddress, data |-> <<52, 18>>], 1))

\* what S3 expects of the two analyses
S3Expected(apwr, aprd) ==
    /\ apwr.res = OkR
    /\ aprd.res = OkR
    /\ aprd.dm.devices[1].configured_address = Some(4660)
    /\ 4660 \in DOMAIN aprd.dm.config_address_map
    /\ aprd.dm.config_address_map[4660] = 0

\* the APRD analyzed by the manager the APWR left
S3AfterApwr(apwr) == S3Expected(apwr, AnalyzePacketOn(apwr.dm, S3Aprd))

\* C18 as stated: with a one-device roster, the outbound APWR followed by the
\* inbound APRD of S3 leaves devices[0].configured_address = Some(0x1234) and
\* config_address_map[0x1234] = 0, and neither frame reports an error.
C18_Original ==
    (pc = "recv" /\ ~uninitialized /\ Len(devices) = 1) =>
        S3AfterApwr(AnalyzePacketOn(DM, S3Apwr))

\* the frames of scenario S4 for station address a: the outbound FPWR of
\* AlControl = PreOp and the inbound FPRD of AlStatus = PreOp
S4Fpwr(a) ==
    Frame(TRUE, Datagram(FPWR, a, [ado |-> AlControl, data |-> <<2>>], 0))

S4Fprd(a) ==
    Frame(FALSE, Datagram(FPRD, a, [ado |-> AlStatus, data |-> <<2>>], 1))

\* the one state-machine step of a frame returned Ok
OneStepOk(r) ==
    /\ Len(r.log) = 1
    /\ Len(r.log[1].steps) = 1
    /\ r.log[1].steps[1].res = OkR

\* what S4 expects of the two analyses, for the device at roster index i
S4Expected(i, fpwr, fprd) ==
    /\ fpwr.res = OkR
    /\ fprd.res = OkR
    /\ fprd.dm.devices[i].state = PreOp
    /\ OneStepOk(fprd)

\* the FPRD analyzed by the manager the FPWR left
S4AfterFpwr(a, i, fpwr) ==
    S4Expected(i, fpwr, AnalyzePacketOn(fpwr.dm, S4Fprd(a)))

\* an inbound FPRD of AlStatus = PreOp with WKC 1 for a mapped device in Init
\* whose register_wr holds AlControl = PreOp
IsS4Fprd(e) ==
    /\ e.dg.command = FPRD /\ ~e.from_main /\ e.dg.wkc = 1
    /\ e.dg.ado = AlStatus /\ e.dg.data = <<2>>
    /\ IsMapped(e)
    /\ e.before.devices[e.before.config_address_map[e.dg.adp] + 1].state = Init_
    /\ ReadRegImpl(e.before.devices[e.before.config_address_map[e.dg.adp] + 1].register_wr,
                   AlControl, 1) = <<Some(2)>>

\* C19: for a device in Init whose configured address is in
\* config_address_map, the outbound FPWR of AlControl = 0x02 followed by the
\* inbound FPRD of AlStatus = 0x02 with WKC 1 leaves the device in PreOp and
\* the FPRD's step returns no ESM error; so does every such FPRD that finds
\* AlControl = 0x02 written.
C19_ForwardTransition ==
    /\ (pc = "recv" /\ ~uninitialized) =>
        \A a \in DOMAIN config_address_map :
            devices[config_address_map[a] + 1].state = Init_ =>
                S4AfterFpwr(a, config_address_map[a] + 1,
                            AnalyzePacketOn(DM, S4Fpwr(a)))
    /\ \A e \in Entries :
        IsS4Fprd(e) =>
            /\ e.res = OkR
            /\ e.after.devices[e.before.config_address_map[e.dg.adp] + 1].state = PreOp
            /\ Len(e.steps) = 1
            /\ e.steps[1].res = OkR

\* the FPRD of S4 has been analyzed: the device at station 0x1234 was in Init
\* with AlControl = PreOp written, and is now in PreOp
C19_Witness ==
    \E e \in Entries :
        /\ IsS4Fprd(e)
        /\ e.dg.adp = 4660
        /\ e.before.devices[1].configured_address = Some(4660)
        /\ devices[1].state = PreOp
        /\ e.steps[1].res = OkR

\* the roster index (from 1) of the device an FPRD or FPWR is mapped to
Station(e) == e.before.config_address_map[e.dg.adp] + 1

\* the inbound FPRD of scenario S5: AlStatus = 0x12 with WKC 1 for a mapped
\* device in Op whose register_wr holds AlControl = Op and whose register_rd
\* holds 01 00 at AlStatusCode
IsS5Fprd(e) ==
    /\ e.dg.command = FPRD /\ ~e.from_main /\ e.dg.wkc = 1
    /\ e.dg.ado = AlStatus /\ e.dg.data = <<18>>
    /\ IsMapped(e)
    /\ e.before.devices[Station(e)].state = Op
    /\ ReadRegImpl(e.before.devices[Station(e)].register_wr, AlControl, 1)
            = <<Some(8)>>
    /\ ReadRegImpl(e.before.devices[Station(e)].register_rd, AlStatusCode, 2)
            = <<Some(1), Some(0)>>

\* C20: for a device in Op whose last AL Control is Op and whose register_rd
\* holds 01 00 at 0x0134, an inbound FPRD returning AL Status 0x12 runs one
\* step, which returns BackwardTransition{from: Op, to: PreOp, has_error:
\* true}; afterwards state = PreOp, al_status_code = Some(0x0001) and
\* has_esm_error = true.
C20_BackwardWithError ==
    \A e \in Entries :
        IsS5Fprd(e) =>
            /\ Len(e.steps) = 1
            /\ e.steps[1].res = [kind |-> "BackwardTransition", from |-> Op,
                                 to |-> PreOp, has_error |-> TRUE]
            /\ e.after.devices[Station(e)].state = PreOp
            /\ e.after.devices[Station(e)].al_status_code = Some(1)
            /\ e.after.devices[Station(e)].has_esm_error

\* the FPRD of S5 has been analyzed on a device that had no error so far: the
\* device is in PreOp with has_esm_error set and AL Status Code 0x0001
C20_Witness ==
    \E e \in Entries :
        /\ IsS5Fprd(e)
        /\ ~e.before.devices[1].has_esm_error
        /\ e.before.devices[1].al_status_code = None
        /\ e.steps[1].res.kind = "BackwardTransition"
        /\ devices[1].state = PreOp
        /\ devices[1].al_status_code = Some(1)
        /\ devices[1].has_esm_error

\* the roster is neither re-created nor resized by one step of the loop
RosterKept ==
    ~uninitialized => ~uninitialized' /\ Len(devices') = Len(devices)

\* C21: devices are created exactly once: once the first inbound BRD has
\* cleared `uninitialized` it never becomes true again and the length of
\* the roster never changes, and a later inbound BRD whose WKC differs from
\* the roster's length is answered InvalidWkc and leaves the roster as long as
\* it was.
C21_CreatedOnce ==
    /\ [](\A e \in Entries :
            IsInboundBrd(e) /\ ~e.before.uninitialized =>
                /\ ~e.after.uninitialized
                /\ Len(e.after.devices) = Len(e.before.devices)
                /\ e.dg.wkc # Len(e.before.devices) =>
                    e.res.kind = "InvalidWkc" /\ e.res.actual = e.dg.wkc)
    /\ [][RosterKept]_vars

\* a roster of one device has seen an inbound BRD come back with WKC = 2; it
\* was answered InvalidWkc and the roster still holds one device
C21_Witness ==
    \E e \in Entries :
        /\ IsInboundBrd(e) /\ ~e.before.uninitialized
        /\ Len(e.before.devices) = 1 /\ e.dg.wkc = 2
        /\ e.res.kind = "InvalidWkc"
        /\ Len(devices) = 1 /\ ~uninitialized /\ pc = "report"

\* C22: a state-machine step that finds, after the stepper's refresh, no AL
\* Status or an AL Status whose state nibble does not decode is a no-op: it
\* returns Ok and leaves the device's state, has_esm_error and al_status_code
\* as they were before the step.
C22_NoStatusNoOp ==
    \A st \in Steps :
        ~HasNewState(st) =>
            /\ st.res = OkR
            /\ st.after = st.at_change
            /\ st.after.state = st.before.state
            /\ st.after.has_esm_error = st.before.has_esm_error
            /\ st.after.al_status_code = st.before.al_status_code

\* an FPRD step found an AL Status whose nibble is no state while AL Control
\* asked for a state other than the device's, and changed nothing
C22_Witness ==
    \E st \in Steps :
        /\ st.stepper = "Fprd"
        /\ IsSome(st.at_change.al_status)
        /\ ~Unwrap(st.at_change.al_status).state.ok
        /\ HasRequest(st)
        /\ st.res = OkR
        /\ st.after.state = st.before.state

\* the frame being analyzed, in the runs over captured bytes
TheFrame == Unwrap(packet).frame

\* the length field of the datagram that starts at offset off of the body
LengthAt(f, off) ==
    (f.payload[off + 7] + 256 * f.payload[off + 8]) % 2048

\* the datagram at offset off does not fit: its 10 + length + 2 bytes exceed
\* the declared length that remains or the bytes that are there
Overruns(f, off) ==
    \/ Len(f.payload) - off < 10
    \/ 10 + LengthAt(f, off) + 2 > f.total_length - off
    \/ 10 + LengthAt(f, off) + 2 > Len(f.payload) - off

\* carving datagrams from offset off on: the carve either meets a datagram
\* that does not fit, or stops after n datagrams with `consumed` bytes used
RECURSIVE Carve(_, _, _)
Carve(f, off, n) ==
    IF off >= f.total_length THEN [overrun |-> FALSE, consumed |-> off, n |-> n]
    ELSE IF Overruns(f, off) THEN [overrun |-> TRUE, consumed |-> off, n |-> n]
    ELSE Carve(f, off + 10 + LengthAt(f, off) + 2, n + 1)

DecoderError(err) == [kind |-> "InvalidDatagram", err |-> err]

\* the smallest datagram on the wire: a header and a working counter
MinDatagram == 12

\* what the claim says of a frame f whose analysis returned r, carved as c:
\* where the carve stops short of total_length, either the declared length
\* that remains has room for a datagram, and that datagram does not fit, or
\* it has not, and the bytes consumed differ from total_length
Classified(f, r, c) ==
    /\ f.type_field # 1 =>
        r.res = DecoderError("InvalidHeader") /\ r.log = <<>> /\ r.dm = DM
    /\ f.type_field = 1 /\ c.overrun
            /\ f.total_length - c.consumed >= MinDatagram =>
        r.res = DecoderError("InvalidDatalength") /\ r.log = <<>>
    /\ (/\ f.type_field = 1
        /\ \/ c.n = 0 /\ f.total_length = 0
           \/ /\ c.consumed # f.total_length
              /\ f.total_length - c.consumed < MinDatagram) =>
        r.res = DecoderError("InvalidHeader") /\ r.log = <<>>

\* C23 as stated: a frame whose protocol_type is not 0x01 is answered
\* InvalidHeader and none of its datagrams is dispatched; a frame in which
\* some datagram's 10 + length + 2 bytes exceed the declared length that
\* remains, or the bytes available, is answered InvalidDatalength; a frame
\* whose datagrams consume a number of bytes other than total_length, or that
\* produces no datagram (total_length = 0), is answered InvalidHeader.
C23_Original ==
    pc = "analyze" /\ "frame" \in DOMAIN Unwrap(packet) =>
        Classified(TheFrame, AnalyzePacketOn(DM, Unwrap(packet)),
                   Carve(TheFrame, 0, 0))

\* the frame in hand was decoded from captured bytes and parse_datagram
\* returned Ok for it
ParsedOk ==
    /\ IsSome(packet)
    /\ "frame" \in DOMAIN Unwrap(packet)
    /\ Unwrap(packet).parsed.ok

TheDatagrams == Unwrap(packet).parsed.datagrams

\* the sum of the on-wire sizes 10 + length + 2 of a chain of datagrams
RECURSIVE WireSize(_)
WireSize(ds) ==
    IF ds = <<>> THEN 0 ELSE 10 + Head(ds).length + 2 + WireSize(Tail(ds))

\* C24: for every frame on which parse_datagram succeeds, the sum over the
\* returned datagrams of 10 + length + 2 equals the frame's total_length, and
\* at least one datagram is returned.
C24_LengthInvariant ==
    ParsedOk =>
        /\ WireSize(TheDatagrams) = TheFrame.total_length
        /\ Len(TheDatagrams) >= 1

\* a frame of two datagrams with different payload lengths, and with a byte of
\* padding behind them, has been parsed
C24_Witness ==
    /\ ParsedOk
    /\ Len(TheDatagrams) = 2
    /\ TheDatagrams[1].length # TheDatagrams[2].length
    /\ Len(TheFrame.payload) > TheFrame.total_length
    /\ pc = "report"

\* C25 as stated: in every successfully parsed frame a datagram whose `more`
\* flag is false is the last datagram of the chain.
C25_Original ==
    ParsedOk =>
        \A i \in 1..Len(TheDatagrams) :
            ~TheDatagrams[i].more => i = Len(TheDatagrams)

\* a number as bytes, low byte first
LeBytes(x, n) == [i \in 1..n |-> (x \div (256 ^ (i - 1))) % 256]

\* the info word of a decoded datagram: length, circular and more
InfoOf(d) ==
    d.length + (IF d.circular THEN 16384 ELSE 0) + (IF d.more THEN 32768 ELSE 0)

\* a decoded datagram re-emitted: its 10-byte header, payload and wkc
Emit(d) ==
    <<d.command, d.index>> \o LeBytes(d.address, 4) \o LeBytes(InfoOf(d), 2)
    \o LeBytes(d.irq, 2) \o d.payload \o LeBytes(d.wkc, 2)

RECURSIVE EmitAll(_)
EmitAll(ds) == IF ds = <<>> THEN <<>> ELSE Emit(Head(ds)) \o EmitAll(Tail(ds))

\* the first total_length bytes of the frame body
DeclaredBody(f) == SubSeq(f.payload, 1, f.total_length)

\* C26 as stated: parsing a valid frame and re-emitting each datagram's
\* header, payload and wkc in order yields exactly the first total_length
\* bytes of the frame body.
C26_Original == ParsedOk => EmitAll(TheDatagrams) = DeclaredBody(TheFrame)

\* bits 11 to 13 of the info word of every datagram of the chain ds, which
\* starts at offset off of the body, are zero
RECURSIVE ReservedClear(_, _, _)
ReservedClear(f, ds, off) ==
    \/ ds = <<>>
    \/ /\ (f.payload[off + 8] \div 8) % 8 = 0
       /\ ReservedClear(f, Tail(ds), off + 10 + Head(ds).length + 2)

\* C26 amended: parsing a valid frame in whose datagram headers the reserved
\* bits 11 to 13 of the info word are zero, and re-emitting each datagram's
\* header, payload and wkc in order, yields exactly the first total_length
\* bytes of the frame body.
C26_RoundTrip ==
    ParsedOk /\ ReservedClear(TheFrame, TheDatagrams, 0) =>
        EmitAll(TheDatagrams) = DeclaredBody(TheFrame)

\* a frame with a byte of padding behind a datagram that carries the circular
\* flag, a payload, an index and an irq other than 0 has made the round trip
C26_Witness ==
    /\ ParsedOk /\ ReservedClear(TheFrame, TheDatagrams, 0)
    /\ pc = "report"
    /\ Len(TheFrame.payload) > TheFrame.total_length
    /\ TheDatagrams[1].circular
    /\ TheDatagrams[1].length = 2
    /\ TheDatagrams[1].index = 5 /\ TheDatagrams[1].irq = 513
    /\ EmitAll(TheDatagrams) = DeclaredBody(TheFrame)

\* the datagrams dispatched so far are the first datagrams of the frame, in
\* the order they have on the wire
OnWireOrder ==
    \A i \in 1..Len(log) : log[i].dg = Unwrap(packet).parsed.datagrams[i]

\* C27: the analyzer loop receives the frames in exactly the order the source
\* captured them, none twice and none out of turn, it analyzes them in that
\* order, and within a frame the datagrams are dispatched in on-wire order.
C27_CaptureOrder ==
    /\ \A i \in 1..Len(delivered) : delivered[i].timestamp = i
    /\ \A i \in 1..Len(analyzed) :
        /\ analyzed[i] \in 1..Len(delivered)
        /\ \A j \in 1..(i - 1) : analyzed[j] < analyzed[i]
    /\ pc = "report" /\ mode # "direct" => OnWireOrder

\* the first frame of a live capture has been analyzed, its two datagrams
\* dispatched in turn, while the second and the third frame wait in the data
\* channel
C27_Witness ==
    /\ mode = "live"
    /\ pc = "report"
    /\ Len(delivered) = 1
    /\ Len(log) = 2
    /\ log[1].dg.index = 0 /\ log[2].dg.index = 1
    /\ Len(rx_data) = 2
    /\ rx_data[1].timestamp = 2 /\ rx_data[2].timestamp = 3

\* SIGINT has been delivered to the process
Interrupted == ctrlc # "idle"

\* the source thread, the writer thread and the analyzer loop have ended and
\* main's join has returned
AllEnded ==
    /\ source.pc = "done"
    /\ writer.pc \in {"none", "done"}
    /\ pc = "done"

\* C28 as stated: after SIGINT every thread eventually terminates: the source
\* thread leaves its poll loop even if no further frame arrives, the analyzer
\* loop exits, the writer thread exits, and main's join on the source thread
\* returns.
C28_Original == Interrupted ~> AllEnded

\* the timestamps of the messages of ms that hold at least n bytes
RECURSIVE StampsOf(_, _)
StampsOf(ms, n) ==
    IF ms = <<>> THEN <<>>
    ELSE (IF Len(Head(ms).data) >= n THEN <<Head(ms).timestamp>> ELSE <<>>)
         \o StampsOf(Tail(ms), n)

\* the frames received whose loop iteration is over
Finished ==
    IF pc \in {"analyze", "report"}
    THEN SubSeq(delivered, 1, Len(delivered) - 1) ELSE delivered

\* a replay drops nothing: the frames read from the file have been received
\* once each and in order, but for the one the source holds in its blocked
\* send, and those whose iteration is over and that hold at least n bytes
\* have been analyzed once each; when main has ended the file is read to its
\* end and the source thread has gone; as long as no frame was received there
\* is no SubDevice and no event
ReplayKeeps(n) ==
    (mode = "file" /\ ctrlc = "idle") =>
        /\ \A i \in 1..Len(delivered) : delivered[i].timestamp = i
        /\ rx_data = <<>>
        /\ source.read
            = Len(delivered) + (IF IsSome(source.hand) THEN 1 ELSE 0)
        /\ analyzed = StampsOf(Finished, n)
        /\ pc = "done" =>
            source.pc = "done" /\ source.left = 0 /\ ~IsSome(source.hand)
        /\ delivered = <<>> =>
            /\ devices = <<>> /\ uninitialized
            /\ result = None /\ log = <<>> /\ analyzed = <<>>

\* a replay runs to its end unless it is interrupted
ReplayEnds ==
    (mode = "file") ~> (ctrlc # "idle" \/ (pc = "done" /\ source.pc = "done"))

Alive ==
    Len(rx_data)
    + (IF pc \in {"analyze", "report"} THEN 1 ELSE 0)
    + rx_recycle
    + (IF source.pc = "send" THEN 1 ELSE 0)

\* the source thread allocates only when the recycle channel is empty
AllocatesWhenEmpty == source'.allocs > source.allocs => rx_recycle = 0

\* the analyzer hands the buffer of an analyzed frame to the recycle channel
\* as long as the source thread holds its receiving end
ReturnsAnalyzed ==
    (pc = "report" /\ pc' = "recv" /\ source.pc # "done")
        => rx_recycle' = rx_recycle + 1

\* C30: buffer recycling bounds allocation: the source thread allocates a new
\* capture buffer only when the recycle channel is empty and the analyzer
\* returns each analyzed buffer to the recycle channel, so the capture buffers
\* alive at any time are never more than the depth of the data channel plus
\* two, however many frames are processed.
C30_BoundedBuffers ==
    /\ [](Alive <= Depth + 2)
    /\ [][AllocatesWhenEmpty /\ ReturnsAnalyzed]_vars

\* the source thread has read three frames into two buffers, one of them used
\* twice, and both are alive: one with the analyzer and one in the send
C30_Witness ==
    /\ source.read = 3 /\ source.allocs = 2
    /\ Alive = 2 /\ Alive = Depth + 2
    /\ pc \in {"analyze", "report"} /\ source.pc = "send"


\* the frame with header h is an EtherCAT frame
IsEtherCAT(h) == h.ethertype = 34980

\* the headers of the EtherCAT frames the source thread has read, in order
EtherCATSeen == SelectSeq(source.seen, IsEtherCAT)

\* the CapturedData the source thread has labelled and that are not lost:
\* received, in the data channel, or in its send
Labelled ==
    delivered \o rx_data
    \o (IF source.pc = "send" THEN <<Unwrap(source.hand)>> ELSE <<>>)

\* C31: direction inference on file replay: the first EtherCAT frame of the
\* capture is labelled from_main = true and fixes the main address M; every
\* later EtherCAT frame is labelled from_main = true exactly when its source
\* address is M; the frames of another EtherType before or between them have
\* no part in any label.
C31_DirectionInference ==
    mode = "file" =>
        \A i \in 1..Len(Labelled) :
            /\ Labelled[i].timestamp \in 1..Len(EtherCATSeen)
            /\ Labelled[i].from_main
                = (\/ Labelled[i].timestamp = 1
                   \/ EtherCATSeen[Labelled[i].timestamp].source
                        = EtherCATSeen[1].source)

\* a file that starts with an IPv4 frame from address 1, followed by EtherCAT
\* frames from 2 and from 1: the frame from 2 was labelled from_main and the
\* one from 1 was not
C31_Witness ==
    /\ mode = "file"
    /\ source.seen = <<[ethertype |-> 2048, source |-> 1],
                       [ethertype |-> 34980, source |-> 2],
                       [ethertype |-> 34980, source |-> 1]>>
    /\ Len(delivered) = 2
    /\ delivered[1].from_main /\ ~delivered[2].from_main


\* C32 as stated: on the replay path and on the live path only Ethernet
\* frames of EtherType 0x88A4 are sent to the analyzer: there are no more
\* CapturedData than EtherCAT frames read, and the frame a CapturedData of a
\* live capture was made from, the one its timestamp counts, is an EtherCAT
\* frame.
C32_Original ==
    /\ Len(Labelled) <= Len(EtherCATSeen)
    /\ mode = "live" =>
        \A i \in 1..Len(Labelled) :
            IsEtherCAT(source.seen[Labelled[i].timestamp])


\* the decode of the byte at offset a of a register file, None if the file
\* has no such byte
DecodedAt(New(_), file, a) ==
    IF a \in DOMAIN file THEN Some(New(file[a])) ELSE None

\* the nibbles that are an AL state
StateNibbles == {1, 2, 3, 4, 8}

\* C33: after a BrdCommandStepper step, al_control is the decode of
\* register_wr[0x0120], None if that byte was never written, and al_status is
\* Some(decode of register_brd[0x0130]) only if that byte exists and its low
\* nibble is one of 1, 2, 3, 4, 8; otherwise al_status is None and the step
\* does not change the device's state.
C33_BrdRefresh ==
    \A st \in Steps :
        st.stepper = "Brd" =>
            LET brd == st.after.register_brd IN
            /\ st.after.al_control
                = DecodedAt(AlControlNew, st.after.register_wr, AlControl)
            /\ IF AlStatus \in DOMAIN brd /\ brd[AlStatus] % 16 \in StateNibbles
               THEN st.after.al_status = Some(AlStatusNew(brd[AlStatus]))
               ELSE /\ st.after.al_status = None
                    /\ st.after.state = st.before.state

\* a BRD step on a device whose al_status was set and whose AL Control asks
\* for another state read an AL Status byte whose nibble is no state: it
\* cleared al_status and left the state alone
C33_Witness ==
    \E st \in Steps :
        /\ st.stepper = "Brd"
        /\ IsSome(st.before.al_status)
        /\ AlStatus \in DOMAIN st.after.register_brd
        /\ st.after.register_brd[AlStatus] % 16 \notin StateNibbles
        /\ IsSome(st.after.al_control)
        /\ HasRequest(st)
        /\ st.after.al_status = None
        /\ st.after.state = st.before.state


\* C34: after an FprdCommandStepper step, al_control is the decode of
\* register_wr[0x0120] and al_status the decode of register_rd[0x0130],
\* whatever the byte: a status byte whose nibble is no state is stored as an
\* error value that carries the nibble, and the device's state is then left
\* unchanged; al_status is None only if register_rd has no byte at 0x0130.
C34_FprdRefresh ==
    \A st \in Steps :
        st.stepper = "Fprd" =>
            LET rd == st.after.register_rd IN
            /\ st.after.al_control
                = DecodedAt(AlControlNew, st.after.register_wr, AlControl)
            /\ st.after.al_status = DecodedAt(AlStatusNew, rd, AlStatus)
            /\ (st.after.al_status = None) <=> (AlStatus \notin DOMAIN rd)
            /\ (AlStatus \in DOMAIN rd /\ rd[AlStatus] % 16 \notin StateNibbles)
                => /\ Unwrap(st.after.al_status).state
                        = [ok |-> FALSE, v |-> rd[AlStatus] % 16]
                   /\ st.after.state = st.before.state

\* an FPRD step on a device in PreOp whose AL Control asks for SafeOp read the
\* AL Status byte 5: al_status holds the error value 5 and the device is
\* still in PreOp
C34_Witness ==
    \E st \in Steps :
        /\ st.stepper = "Fprd"
        /\ st.before.state = PreOp
        /\ st.after.al_control = Some(AlControlNew(4))
        /\ st.after.register_rd[AlStatus] = 5
        /\ st.after.al_status
            = Some([state |-> [ok |-> FALSE, v |-> 5], error |-> FALSE])
        /\ st.after.state = PreOp


\* the little-endian u16 a register file holds at 0x0010..0x0011, None if a
\* byte is missing
AddressIn(file) ==
    IF ConfiguredStationAddress \in DOMAIN file
        /\ (ConfiguredStationAddress + 1) \in DOMAIN file
    THEN Some(file[ConfiguredStationAddress]
              + 256 * file[ConfiguredStationAddress + 1])
    ELSE None

\* an APRD step that finds the device in Init, without a configured address,
\* and with the same two bytes written to and read from 0x0010..0x0011
CommitCase(st) ==
    /\ st.stepper = "Aprd"
    /\ st.before.state = Init_
    /\ st.before.configured_address = None
    /\ AddressIn(st.before.register_wr) # None
    /\ AddressIn(st.before.register_wr) = AddressIn(st.before.register_rd)

\* no device loses or changes a configured address it has
AddressKept ==
    \A i \in 1..Len(devices) :
        IsSome(devices[i].configured_address) =>
            /\ i <= Len(devices')
            /\ devices'[i].configured_address = devices[i].configured_address

\* C35: configured_address is committed only by an inbound-APRD step in which
\* the device is in Init, configured_address is unset and register_wr and
\* register_rd hold the same two bytes at 0x0010..0x0011; with a byte missing
\* or the two values different it stays unset, and once set it is never
\* changed by a later datagram.
C35_AddressCommit ==
    /\ [](\A e \in Entries : \A i \in 1..Len(e.before.devices) :
            e.after.devices[i].configured_address
                    # e.before.devices[i].configured_address
                => /\ e.dg.command = APRD /\ ~e.from_main
                   /\ e.before.devices[i].configured_address = None
                   /\ \E st \in {e.steps[j] : j \in 1..Len(e.steps)} :
                        /\ st.dev = i - 1
                        /\ CommitCase(st)
                        /\ e.after.devices[i].configured_address
                            = AddressIn(st.before.register_wr))
    /\ [](\A st \in Steps :
            st.stepper = "Aprd" =>
                /\ CommitCase(st)
                    <=> st.after.configured_address # st.before.configured_address
                /\ ~CommitCase(st)
                    => st.after.configured_address = st.before.configured_address)
    /\ [][AddressKept]_vars

\* a device that committed 0x1234 was later written 0x1235 and read 0x1235
\* back in an inbound APRD: it is still configured as 0x1234
C35_Witness ==
    \E st \in Steps :
        /\ st.stepper = "Aprd"
        /\ st.before.configured_address = Some(4660)
        /\ AddressIn(st.before.register_wr) = Some(4661)
        /\ AddressIn(st.before.register_rd) = Some(4661)
        /\ st.after.configured_address = Some(4660)
        /\ devices[st.dev + 1].configured_address = Some(4660)


\* an inbound BRD, APRD or FPRD whose register range leaves AL Status out
IsReadWithoutStatus(e) ==
    /\ ~e.from_main
    /\ e.dg.command \in {BRD, APRD, FPRD}
    /\ AlStatus \notin Covered(e.dg)

\* C36 as stated: a state-machine step triggered by an inbound BRD, APRD or
\* FPRD whose register range does not include AL Status changes the state of
\* no device and returns no ESM error.
C36_Original ==
    \A e \in Entries :
        IsReadWithoutStatus(e) =>
            /\ \A i \in 1..Len(e.before.devices) :
                e.after.devices[i].state = e.before.devices[i].state
            /\ \A j \in 1..Len(e.steps) :
                /\ e.steps[j].res = OkR
                /\ e.steps[j].after.state = e.steps[j].before.state


\* every entry of the map of dm points into the roster, at a device that has
\* the entry's address, and every configured address of the roster is a key
MapConsistent(dm) ==
    /\ \A a \in DOMAIN dm.config_address_map :
        /\ dm.config_address_map[a] < Len(dm.devices)
        /\ dm.devices[dm.config_address_map[a] + 1].configured_address = Some(a)
    /\ \A i \in 1..Len(dm.devices) :
        IsSome(dm.devices[i].configured_address) =>
            Unwrap(dm.devices[i].configured_address)
                \in DOMAIN dm.config_address_map

\* C37: in every reachable state, between frames and between the datagrams of
\* a frame, each entry a -> i of config_address_map has i < devices.len() and
\* devices[i].configured_address = Some(a), and every device with a configured
\* address a has an entry for a; an FPRD or FPWR that finds its station
\* therefore steps or writes a device of the roster.
C37_MapConsistent ==
    /\ MapConsistent(DM)
    /\ \A e \in Entries :
        /\ MapConsistent(e.after)
        /\ \A j \in 1..Len(e.steps) : e.steps[j].dev < Len(e.after.devices)

\* on a bus of two devices the second one, bus index 1, is station 0x1234;
\* an inbound FPRD of station 0x1234 found it through the map and stepped it
\* to PreOp
C37_Witness ==
    /\ pc = "report"
    /\ Len(devices) = 2
    /\ \E e \in Entries :
        /\ e.dg.command = FPRD /\ ~e.from_main /\ e.dg.adp = 4660
        /\ Len(e.before.devices) = 2
        /\ 4660 \in DOMAIN e.before.config_address_map
        /\ e.before.config_address_map[4660] = 1
        /\ Len(e.steps) = 1 /\ e.steps[1].dev = 1
        /\ e.before.devices[2].state = Init_
        /\ devices[2].state = PreOp
        /\ devices[1].configured_address = None


\* the frame in `packet` passes the protocol-type check and the parse of its
\* datagram chain
Decodes ==
    Unwrap(packet).protocol_type = 1 /\ Unwrap(packet).parsed.ok

\* what analyze_packet does to num_frames and, for a frame that does not
\* decode, to the rest of the manager; every other step of the loop leaves
\* num_frames alone, and the step after a report is the next receive
CountsDecoded ==
    /\ (pc = "analyze" /\ pc' = "report" /\ Decodes) =>
        /\ num_frames' = num_frames + 1
        /\ \A i \in 1..Len(log') :
            /\ log'[i].before.num_frames = num_frames + 1
            /\ log'[i].after.num_frames = num_frames + 1
    /\ (pc = "analyze" /\ pc' = "report" /\ ~Decodes) =>
        /\ result'[1].kind = "InvalidDatagram"
        /\ log' = <<>>
        /\ UNCHANGED <<uninitialized, num_frames, expected_wkc, devices,
                       config_address_map>>
    /\ ~(pc = "analyze" /\ pc' = "report") => num_frames' = num_frames
    /\ pc = "report" => pc' = "recv"

\* C38: num_frames never decreases and counts decoded frames only: it goes up
\* by exactly 1, before any datagram is dispatched, for each frame that passes
\* the protocol-type check and the parse of the datagram chain; a frame that
\* fails decoding leaves num_frames, the roster, every register file and
\* config_address_map unchanged, and the loop goes on to the next frame.
C38_CountsDecodedFrames == [][CountsDecoded]_vars

\* after one frame was decoded and created the roster, a frame whose chain
\* does not parse was answered InvalidDatagram: num_frames is still 1 and the
\* roster is still there
C38_Witness ==
    /\ pc = "report"
    /\ Unwrap(packet).protocol_type = 1 /\ ~Unwrap(packet).parsed.ok
    /\ result = Some([kind |-> "InvalidDatagram",
                      err |-> Unwrap(packet).parsed.err])
    /\ num_frames = 1
    /\ Len(devices) = 1


\* the fields of a device an outbound datagram has no business with
InboundFields(sd) ==
    [state |-> sd.state, al_control |-> sd.al_control,
     al_status |-> sd.al_status, al_status_code |-> sd.al_status_code,
     has_esm_error |-> sd.has_esm_error,
     configured_address |-> sd.configured_address,
     register_rd |-> sd.register_rd, register_brd |-> sd.register_brd]

\* C39: outbound datagrams never run a state-machine stepper: processing a
\* datagram of an outbound frame leaves every device's state, al_control,
\* al_status, al_status_code, has_esm_error, configured_address, register_rd
\* and register_brd, and the config_address_map, unchanged; only register_wr
\* may change.
C39_OutboundNoStep ==
    \A e \in Entries :
        e.from_main =>
            /\ e.steps = <<>>
            /\ Len(e.after.devices) = Len(e.before.devices)
            /\ \A i \in 1..Len(e.before.devices) :
                InboundFields(e.after.devices[i])
                    = InboundFields(e.before.devices[i])
            /\ e.after.config_address_map = e.before.config_address_map

\* an outbound BWR of AL Control reached a device whose al_status is set and
\* whose register_brd holds a byte: register_wr took the payload and nothing
\* else changed
C39_Witness ==
    \E e \in Entries :
        /\ e.from_main /\ e.dg.command = BWR /\ e.dg.ado = AlControl
        /\ Len(e.before.devices) >= 1
        /\ IsSome(e.before.devices[1].al_status)
        /\ e.before.devices[1].al_control = None
        /\ AlControl \notin DOMAIN e.before.devices[1].register_wr
        /\ AlControl \in DOMAIN e.after.devices[1].register_wr
        /\ e.after.devices[1].al_control = None


\* a length the frame declares is larger than the bytes that are there: its
\* total_length, or the length of the datagram at which the carve c stops
ExceedsBytes(f, c) ==
    \/ f.total_length > Len(f.payload)
    \/ /\ c.overrun
       /\ Len(f.payload) - c.consumed >= 10
       /\ 10 + LengthAt(f, c.consumed) + 2 > Len(f.payload) - c.consumed

\* C40: for every slice of at least 2 bytes, one whose declared total_length
\* or datagram length exceeds the bytes present included, ECFrame::new and
\* parse_datagram return datagrams or an ECPacketError and never index outside
\* the slice; a declared length larger than the bytes available yields
\* InvalidDatalength.
C40_DecoderInBounds ==
    (IsSome(packet) /\ "frame" \in DOMAIN Unwrap(packet)) =>
        LET r == Unwrap(packet).parsed IN
        /\ r.ok \/ r.err \in {"InvalidHeader", "InvalidDatalength"}
        /\ r.ok => \A i \in 1..Len(r.datagrams) :
                    Len(r.datagrams[i].payload) = r.datagrams[i].length
        /\ ExceedsBytes(TheFrame, Carve(TheFrame, 0, 0)) =>
            r = [ok |-> FALSE, err |-> "InvalidDatalength"]

\* a frame that declares one byte more than it holds: its one datagram was
\* decoded, the next slice starts at the very end of the bytes, and the
\* answer is InvalidDatalength
C40_Witness ==
    /\ pc = "report"
    /\ "frame" \in DOMAIN Unwrap(packet)
    /\ TheFrame.type_field = 1
    /\ TheFrame.total_length = Len(TheFrame.payload) + 1
    /\ Carve(TheFrame, 0, 0).n = 1
    /\ Carve(TheFrame, 0, 0).consumed = Len(TheFrame.payload)
    /\ Unwrap(packet).parsed = [ok |-> FALSE, err |-> "InvalidDatalength"]
    /\ result = Some(DecoderError("InvalidDatalength"))

=============================================================================
